---------------------------- MODULE Spec2Model ----------------------------
(***************************************************************************)
(* Model of extract_xml_to_db.py: extraction of the four record kinds from *)
(* a parsed cadastral document, the batched "insert or skip on conflict"   *)
(* load of one document per worker transaction, and the orchestrator that  *)
(* fans the files of a group out over a worker pool and aggregates the     *)
(* counters.                                                               *)
(*                                                                         *)
(* Python values: None is the one-element sequence <<"None">>; a str is a  *)
(* sequence of tokens, the token " " standing for white space and any      *)
(* other token for a block of non-blank characters, so that str.strip()    *)
(* is modelled by what it does.                                            *)
(***************************************************************************)
EXTENDS Integers, Sequences, FiniteSets, TLC

None == <<"None">>

\* Python truthiness of an Optional[str]: None and '' are falsy.
Truthy(v) == v # None /\ v # <<>>

RECURSIVE LStrip(_)
LStrip(s) == IF s # <<>> /\ Head(s) = " " THEN LStrip(Tail(s)) ELSE s

RECURSIVE RStrip(_)
RStrip(s) ==
    IF s # <<>> /\ s[Len(s)] = " " THEN RStrip(SubSeq(s, 1, Len(s) - 1)) ELSE s

\* str.strip()
Strip(s) == RStrip(LStrip(s))

\* XMLParser._get_text(element, tag, default): raw is the text of the child
\* element, None when the child is absent or has no text.
get_text(raw, default) == IF raw # None /\ raw # <<>> THEN Strip(raw) ELSE default

\* Python True and False as field values.
PyTrue == <<"True">>
PyFalse == <<"False">>

\* str.lower(), on the tokens that have an upper-case letter.
Lower(s) ==
    [i \in 1..Len(s) |->
        CASE s[i] = "TRUE" -> "true"
          [] s[i] = "True" -> "true"
          [] s[i] = "Yes"  -> "yes"
          [] s[i] = ".PDF" -> ".pdf"
          [] OTHER         -> s[i]]

\* XMLParser._parse_boolean
parse_boolean(bool_str) ==
    IF ~Truthy(bool_str) THEN None
    ELSE IF Lower(Strip(bool_str)) \in {<<"true">>, <<"1">>, <<"yes">>}
         THEN PyTrue ELSE PyFalse

\* The tokens strptime reads as a year, a month, a day, an hour, a minute
\* and a second; a month may come without its leading zero.
YearToks == {"2020"}
MonthToks == {"03", "3"}
DayToks == {"15"}
HourToks == {"10"}
MinuteToks == {"30"}
SecondToks == {"00"}

\* strftime writes a month with two digits.
Pad(t) == IF t = "3" THEN "03" ELSE t

\* strptime(s, '%Y-%m-%d') does not raise ValueError.
IsYMD(s) ==
    /\ Len(s) = 5
    /\ s[1] \in YearToks /\ s[2] = "-" /\ s[3] \in MonthToks
    /\ s[4] = "-" /\ s[5] \in DayToks

\* strptime(s, '%Y-%m-%d %H:%M:%S') does not raise ValueError.
IsYMDHMS(s) ==
    /\ Len(s) = 11
    /\ IsYMD(SubSeq(s, 1, 5))
    /\ s[6] = " "
    /\ s[7] \in HourToks /\ s[8] = ":" /\ s[9] \in MinuteToks
    /\ s[10] = ":" /\ s[11] \in SecondToks

\* strptime(s, '%d/%m/%Y') does not raise ValueError.
IsDMY(s) ==
    /\ Len(s) = 5
    /\ s[1] \in DayToks /\ s[2] = "/" /\ s[3] \in MonthToks
    /\ s[4] = "/" /\ s[5] \in YearToks

\* dt.strftime('%Y-%m-%d')
FormatDate(y, m, d) == <<y, "-", Pad(m), "-", d>>

\* dt.strftime('%Y-%m-%d %H:%M:%S')
FormatTimestamp(y, m, d, H, M, S) ==
    FormatDate(y, m, d) \o <<" ", H, ":", M, ":", S>>

\* The third format read as month/day/year.
parse_date_MonthFirst(date_str) ==
    IF ~Truthy(date_str) THEN None
    ELSE LET s == Strip(date_str)
         IN  IF IsYMD(s) THEN FormatDate(s[1], s[3], s[5])
             ELSE IF IsYMDHMS(s) THEN FormatDate(s[1], s[3], s[5])
             ELSE IF IsDMY(s) THEN FormatDate(s[5], s[1], s[3])
             ELSE None

\* XMLParser._parse_date: the formats are tried in the order of the list.
parse_date(date_str) ==
    IF ~Truthy(date_str) THEN None
    ELSE LET s == Strip(date_str)
         IN  IF IsYMD(s) THEN FormatDate(s[1], s[3], s[5])
             ELSE IF IsYMDHMS(s) THEN FormatDate(s[1], s[3], s[5])
             ELSE IF IsDMY(s) THEN FormatDate(s[5], s[3], s[1])
             ELSE None

\* XMLParser._parse_timestamp; a date without time is midnight.
parse_timestamp(timestamp_str) ==
    IF ~Truthy(timestamp_str) THEN None
    ELSE LET s == Strip(timestamp_str)
         IN  IF IsYMDHMS(s)
             THEN FormatTimestamp(s[1], s[3], s[5], s[7], s[9], s[11])
             ELSE IF IsYMD(s)
             THEN FormatTimestamp(s[1], s[3], s[5], "00", "00", "00")
             ELSE None

\* The list comprehension [f(x) for x in s].
MapSeq(s, f(_)) == [i \in 1..Len(s) |-> f(s[i])]

RECURSIVE Concat(_)
Concat(ss) == IF ss = <<>> THEN <<>> ELSE Head(ss) \o Concat(Tail(ss))

Range(s) == {s[i] : i \in 1..Len(s)}

-----------------------------------------------------------------------------
(* Document Extractor                                                      *)

\* vo_chong_map: voChongID -> {voChongID, voID, chongID}; a later VoChong
\* node with the same id overwrites an earlier one (dict assignment).
VoChongKeys(doc) ==
    {get_text(doc.vochong[i].voChongID, None) : i \in 1..Len(doc.vochong)}
        \ {None, <<>>}

VoChongLast(doc, k) ==
    CHOOSE i \in 1..Len(doc.vochong) :
        /\ get_text(doc.vochong[i].voChongID, None) = k
        /\ \A j \in (i+1)..Len(doc.vochong) :
               get_text(doc.vochong[j].voChongID, None) # k

vo_chong_map(doc) ==
    [k \in VoChongKeys(doc) |->
        LET n == doc.vochong[VoChongLast(doc, k)]
        IN  [voChongID |-> k,
             voID      |-> get_text(n.voID, None),
             chongID   |-> get_text(n.chongID, None)]]

NoVoChong == [voChongID |-> None, voID |-> None, chongID |-> None]

\* The scan over root.findall('.//QuyenSuDungDat') for one parcel id: the
\* usage-right nodes whose thuaDatID equals the parcel's and whose
\* doiTuongID is a key of vo_chong_map.
QuyenMatches(doc, thua_dat_id) ==
    {i \in 1..Len(doc.quyen) :
        /\ get_text(doc.quyen[i].thuaDatID, None) = thua_dat_id
        /\ Truthy(get_text(doc.quyen[i].doiTuongID, None))
        /\ get_text(doc.quyen[i].doiTuongID, None) \in VoChongKeys(doc)}

\* A plausible slip: the loop stops at the first usage-right of the parcel
\* whatever its subject is.
ResolveFirstOfParcel(doc, thua_dat_id) ==
    LET P == {i \in 1..Len(doc.quyen) :
                 get_text(doc.quyen[i].thuaDatID, None) = thua_dat_id}
        f == CHOOSE i \in P : \A j \in P : i <= j
        d == get_text(doc.quyen[f].doiTuongID, None)
    IN  IF P = {} \/ d \notin VoChongKeys(doc) THEN NoVoChong
        ELSE vo_chong_map(doc)[d]

\* vo_chong_info after the loop: the first match wins (break).
vo_chong_info(doc, thua_dat_id) ==
    LET M == QuyenMatches(doc, thua_dat_id)
    IN  IF M = {} THEN NoVoChong
        ELSE LET f == CHOOSE i \in M : \A j \in M : i <= j
             IN  vo_chong_map(doc)[get_text(doc.quyen[f].doiTuongID, None)]

ThuaDatRow(doc, n) ==
    LET id == get_text(n.thuaDatID, None)
        vc == vo_chong_info(doc, id)
    IN  [thuaDatID |-> id,
         dienTich  |-> get_text(n.dienTich, None),
         hieuLuc   |-> parse_boolean(get_text(n.hieuLuc, <<"true">>)),
         voChongID |-> vc.voChongID,
         voID      |-> vc.voID,
         chongID   |-> vc.chongID]

extract_thuadat_data(doc) ==
    LET keep(n) == Truthy(get_text(n.thuaDatID, None))
        row(n)  == ThuaDatRow(doc, n)
    IN  MapSeq(SelectSeq(doc.thuadat, keep), row)

\* The identity-document fields read from the last GiayToTuyThan.
CaNhanRow_LastGiayTo(n) ==
    [caNhanID        |-> get_text(n.caNhanID, None),
     hoTen           |-> get_text(n.hoTen, None),
     giayToTuyThanID |-> IF n.giayTo = <<>> THEN None
                         ELSE get_text(n.giayTo[Len(n.giayTo)].giayToTuyThanID, None),
     soGiayTo        |-> IF n.giayTo = <<>> THEN None
                         ELSE get_text(n.giayTo[Len(n.giayTo)].soGiayTo, None),
     ngayCap         |-> IF n.giayTo = <<>> THEN None
                         ELSE parse_date(get_text(n.giayTo[Len(n.giayTo)].ngayCap, <<>>)),
     hieuLuc         |-> IF n.giayTo = <<>> THEN None
                         ELSE parse_boolean(get_text(n.giayTo[Len(n.giayTo)].hieuLuc, <<>>))]

\* Only the first GiayToTuyThan of the person's collection is read.
CaNhanRow(n) ==
    [caNhanID        |-> get_text(n.caNhanID, None),
     hoTen           |-> get_text(n.hoTen, None),
     giayToTuyThanID |-> IF n.giayTo = <<>> THEN None
                         ELSE get_text(n.giayTo[1].giayToTuyThanID, None),
     soGiayTo        |-> IF n.giayTo = <<>> THEN None
                         ELSE get_text(n.giayTo[1].soGiayTo, None),
     ngayCap         |-> IF n.giayTo = <<>> THEN None
                         ELSE parse_date(get_text(n.giayTo[1].ngayCap, <<>>)),
     hieuLuc         |-> IF n.giayTo = <<>> THEN None
                         ELSE parse_boolean(get_text(n.giayTo[1].hieuLuc, <<>>))]

extract_canhan_data(doc) ==
    LET keep(n) == Truthy(get_text(n.caNhanID, None))
    IN  MapSeq(SelectSeq(doc.canhan, keep), CaNhanRow)

GcnRow(n) ==
    [giayChungNhanID |-> get_text(n.giayChungNhanID, None),
     soVaoSo         |-> get_text(n.soVaoSo, None),
     ngayCap         |-> parse_timestamp(get_text(n.ngayCap, <<>>))]

\* Every GiayChungNhan node yields a record, with or without identifier.
extract_giaychungnhan_data_KeepAll(doc) == MapSeq(doc.gcn, GcnRow)

extract_giaychungnhan_data(doc) ==
    LET keep(n) == Truthy(get_text(n.giayChungNhanID, None))
    IN  MapSeq(SelectSeq(doc.gcn, keep), GcnRow)

\* One record per component; hoSoDangKySoID and giayChungNhanID are read
\* once on the case node and copied to every component of the case.
HoSoRows(hs) ==
    LET keep(tp) == Truthy(get_text(tp.thanhPhanHoSoID, None))
        row(tp)  == [thanhPhanHoSoID |-> get_text(tp.thanhPhanHoSoID, None),
                     hoSoDangKySoID  |-> get_text(hs.hoSoDangKySoID, None),
                     giayChungNhanID |-> get_text(hs.giayChungNhanID, None),
                     tepTin          |-> get_text(tp.tepTin, None)]
    IN  MapSeq(SelectSeq(hs.thanhphan, keep), row)

extract_hoso_data(doc) == Concat(MapSeq(doc.hoso, HoSoRows))

-----------------------------------------------------------------------------
(* Input documents of the load model.  T(s) is the text s as one block.    *)

T(s) == <<s>>

Person(id, name) == [caNhanID |-> id, hoTen |-> T(name), giayTo |-> <<>>]
Cert(id, name)   == [giayChungNhanID |-> id, soVaoSo |-> T(name), ngayCap |-> None]
Parcel(id, area) == [thuaDatID |-> id, dienTich |-> area, hieuLuc |-> None]
Comp(id, name)   == [thanhPhanHoSoID |-> id, tepTin |-> T(name)]
Case(id, gcn, tps) ==
    [hoSoDangKySoID |-> T(id), giayChungNhanID |-> gcn, thanhphan |-> tps]

EmptyDoc ==
    [wellformed |-> TRUE, canhan |-> <<>>, gcn |-> <<>>, vochong |-> <<>>,
     thuadat |-> <<>>, quyen |-> <<>>, hoso |-> <<>>]

\* 1 parcel without owner-pair, 2 persons, 1 certificate, 1 case with 3
\* components.
DocA ==
    [EmptyDoc EXCEPT
        !.canhan  = <<Person(T("p1"), "a"), Person(T("p2"), "a")>>,
        !.gcn     = <<Cert(T("g1"), "a")>>,
        !.thuadat = <<Parcel(T("t1"), T("1.5"))>>,
        !.hoso    = <<Case("c1", T("g1"),
                          <<Comp(T("h1"), "a"), Comp(T("h2"), "a"),
                            Comp(T("h3"), "a")>>)>>]

\* Overlaps DocA (persons in the opposite order, ids with surrounding white
\* space, the same certificate and the same component id with other
\* attributes); its parcel is owned by the pair (p1, p2); its case names a
\* certificate that only DocC carries.
DocB ==
    [EmptyDoc EXCEPT
        !.canhan  = <<Person(<<" ", "p2", " ">>, "b"), Person(T("p1"), "b")>>,
        !.gcn     = <<Cert(T("g1"), "b")>>,
        !.vochong = <<[voChongID |-> T("v1"), voID |-> T("p1"),
                       chongID |-> T("p2")]>>,
        !.quyen   = <<[thuaDatID |-> T("t2"), doiTuongID |-> T("v1")]>>,
        !.thuadat = <<Parcel(T("t2"), T("2"))>>,
        !.hoso    = <<Case("c2", T("g2"), <<Comp(T("h1"), "b")>>)>>]

\* Its parcel is owned by a pair whose wife p1 is a person of other
\* documents only; one certificate node lacks its id.
DocC ==
    [EmptyDoc EXCEPT
        !.gcn     = <<Cert(None, "c"), Cert(T("g2"), "c")>>,
        !.vochong = <<[voChongID |-> T("v2"), voID |-> T("p1"),
                       chongID |-> None]>>,
        !.quyen   = <<[thuaDatID |-> T("t3"), doiTuongID |-> T("v2")]>>,
        !.thuadat = <<Parcel(T("t3"), T("2"))>>,
        !.hoso    = <<Case("c3", T("g2"), <<Comp(T("h4"), "c")>>)>>]

\* Not well-formed XML.
DocD == [EmptyDoc EXCEPT !.wellformed = FALSE]

\* The parcel id of DocA and DocF with an area that is no number, and a case
\* whose giayChungNhanID element holds white space only.
DocE ==
    [EmptyDoc EXCEPT
        !.thuadat = <<Parcel(T("t1"), T("abc"))>>,
        !.hoso    = <<Case("c5", <<" ">>, <<Comp(T("h6"), "e")>>)>>]

\* A parcel and a component of a case without certificate.
DocF ==
    [EmptyDoc EXCEPT
        !.thuadat = <<Parcel(T("t1"), T("1.5"))>>,
        !.hoso    = <<Case("c6", None, <<Comp(T("h5"), "f")>>)>>]

DocNames == {"A", "B", "C", "D", "E", "F"}

DocOf(name) ==
    CASE name = "A" -> DocA
      [] name = "B" -> DocB
      [] name = "C" -> DocC
      [] name = "D" -> DocD
      [] name = "E" -> DocE
      [] name = "F" -> DocF

-----------------------------------------------------------------------------
(* Bounds and program constants                                            *)

\* Number of XML files found under the root directory.
NumFiles == 2

\* Failures of the environment (a connection that cannot be opened, an
\* existence query or a commit that raises) in one run.
MaxFaults == 1

\* Longest VoChongCollection, number of QuyenSuDungDat nodes and longest
\* ThuaDatCollection of the documents given to a lone XMLParser.
MaxVoChong == 2
MaxQuyen == 2
MaxThuaDat == 2

\* Longest CaNhanCollection, GiayChungNhanCollection and collection of the
\* components of a case, and longest GiayToTuyThanCollection of a person,
\* of those documents.
MaxNodes == 3
MaxGiayTo == 2

\* Largest --limit of a run that is given one.
MaxLimit == 2

\* --threads: size of the ThreadPoolExecutor.
MaxWorkers == 2

Units == 1..NumFiles

Kinds == {"canhan", "giaychungnhan", "thuadat", "hoso"}

\* The parcels loaded before the persons their owner fields reference.
LoadOrder_ParcelsFirst ==
    <<"thuadat", "canhan", "giaychungnhan", "hoso", "commit">>

\* The order of the four insert_* calls in process_single_file_worker; the
\* commit follows the last.
LoadOrder == <<"canhan", "giaychungnhan", "thuadat", "hoso", "commit">>

StatKeys ==
    {"files_processed", "files_failed",
     "thuadat_inserted", "thuadat_skipped", "canhan_inserted", "canhan_skipped",
     "giaychungnhan_inserted", "giaychungnhan_skipped",
     "hoso_inserted", "hoso_skipped"}

VARIABLES
    files,      \* files[u]: name of the document held by file u
    cut,        \* files 1..cut are the first 'xml' directory, the rest the second
    mainpc,     \* position of XMLToDBExtractor.run
    group,      \* index of the directory being processed
    w,          \* w[u]: state of the unit of work of file u
    store,      \* store[kind]: committed rows of the table
    pend,       \* pend[u][kind]: rows inserted by u's open transaction
    aborted,    \* aborted[u]: u's transaction is in the failed state
    stats,      \* ThreadSafeStats.stats
    sofar,      \* files_processed_so_far of run()
    faults,     \* failures of the environment so far (connect, query, commit)
    wrote,      \* wrote[u]: <<kind, row>> made durable by a commit of unit u
    xml,        \* the document a lone XMLParser holds
    parsed,     \* the extract_* calls of it that have returned, and what
    limit,      \* --limit: the cap on the number of files, 0 when not given
    exit_status, \* {} while the process runs, then the set of its exit status
    xml_dir_exists, \* whether the --xml-dir path exists
    xml_dirs_found, \* whether find_xml_directories finds an 'xml' directory
    db_inserter, \* the orchestrator's connection: "none", "open" or "closed"
    commune,    \* the commune directory handed to process_commune
    result      \* what process_commune returned, NoResult before it is called

\* No commune directory: process_all_communes is not what runs.
NoCommune == [xml_exists |-> FALSE, ho_so_exists |-> FALSE, xml |-> <<>>, ho_so |-> {}]

NoResult == [returned |-> FALSE]

vars ==
    <<faults, files, cut, mainpc, group, w, store, pend, aborted, stats, sofar,
      wrote, xml, parsed, limit, exit_status, xml_dir_exists, xml_dirs_found,
      db_inserter, commune, result>>

-----------------------------------------------------------------------------
(* The relational store: PostgreSQL at READ COMMITTED, one transaction per *)
(* connection, opened by the first statement after connect/commit/rollback *)

\* The primary key column of each table (CREATE TABLE ... PRIMARY KEY).
KeyOf(kind, row) ==
    CASE kind = "canhan"        -> row.caNhanID
      [] kind = "giaychungnhan" -> row.giayChungNhanID
      [] kind = "thuadat"       -> row.thuaDatID
      [] kind = "hoso"          -> row.thanhPhanHoSoID

KeysOf(kind, rows) == {KeyOf(kind, r) : r \in rows}

NoRows == [k \in Kinds |-> {}]

\* What a statement of unit u sees: the committed rows and its own.
Visible(u, kind) == store[kind] \cup pend[u][kind]

\* dienTich NUMERIC(15, 2): the texts the column accepts.
IsNumeric(t) == t = None \/ t \in {T("1.5"), T("2")}

\* A value the column type rejects; raised when the statement is analysed,
\* before any conflict is looked for.
CastError(kind, row) == kind = "thuadat" /\ ~IsNumeric(row.dienTich)

\* The tables without their foreign keys.
FKViolation_Unchecked(u, kind, row) == FALSE

\* fk_thuadat_vo, fk_thuadat_chong and fk_hoso_giaychungnhan, checked for a
\* row that is really inserted; rows of open transactions of other
\* connections do not satisfy a reference.
FKViolation(u, kind, row) ==
    CASE kind = "thuadat" ->
            \/ row.voID # None /\ row.voID \notin KeysOf("canhan", Visible(u, "canhan"))
            \/ row.chongID # None
                 /\ row.chongID \notin KeysOf("canhan", Visible(u, "canhan"))
      [] kind = "hoso" ->
            /\ row.giayChungNhanID # None
            /\ row.giayChungNhanID \notin
                   KeysOf("giaychungnhan", Visible(u, "giaychungnhan"))
      [] OTHER -> FALSE

\* The open transactions holding an uncommitted row with the same key: the
\* insert waits for them to end.
Blockers(u, kind, row) ==
    {v \in Units \ {u} : KeyOf(kind, row) \in KeysOf(kind, pend[v][kind])}

\* ON CONFLICT (key) DO UPDATE instead of DO NOTHING: a row whose key is
\* present is written again and counted.
Outcome_DoUpdate(u, kind, row) ==
    IF aborted[u] \/ CastError(kind, row) THEN "error"
    ELSE IF Blockers(u, kind, row) # {} THEN "blocked"
    ELSE IF FKViolation(u, kind, row) THEN "error"
    ELSE "insert"

\* INSERT ... ON CONFLICT (key) DO NOTHING of one row.
Outcome(u, kind, row) ==
    IF aborted[u] \/ CastError(kind, row) THEN "error"
    ELSE IF KeyOf(kind, row) \in KeysOf(kind, Visible(u, kind)) THEN "skip"
    ELSE IF Blockers(u, kind, row) # {} THEN "blocked"
    ELSE IF FKViolation(u, kind, row) THEN "error"
    ELSE "insert"

-----------------------------------------------------------------------------
(* Units of work                                                           *)

\* No call of the lone parser has returned yet.
NotParsed ==
    [returned |-> FALSE, thuadat_list |-> <<>>, calls |-> 0,
     canhan_list |-> <<>>, gcn_list |-> <<>>, hoso_list |-> <<>>]

ZeroRes == [k \in Kinds |-> <<0, 0>>]
NoData  == [k \in Kinds |-> <<>>]

\* pc, data, idx, rcs, res, result and conn are the worker's position, its
\* extracted lists, the statement of execute_batch it is at, the rowcounts
\* of the statements of the batch so far, the pairs returned by insert_*,
\* its return value and its connection.  The other fields record history:
\* returned (the calls that have returned, in order), failures (what
\* raised), ins (<<kind, row>> its statements inserted), dup (what became of
\* its statements for a key already committed), gcn_seen (the certificate
\* ids visible when insert_hoso looked) and before (the units that had
\* committed without a failure when it extracted).
NewUnit ==
    [pc |-> "new", data |-> NoData, idx |-> 1, rcs |-> <<>>, res |-> ZeroRes,
     result |-> "none", conn |-> "none",
     returned |-> <<>>, failures |-> {}, ins |-> {}, dup |-> {},
     gcn_seen |-> {}, before |-> {}]

Pos(k) == CHOOSE i \in 1..Len(LoadOrder) : LoadOrder[i] = k

\* cursor.rowcount after execute_batch: the statements of a page are sent
\* as one string and the count is that of the last one.
cursor_rowcount_sum(rcs) ==
    LET RECURSIVE Sum(_)
        Sum(s) == IF s = <<>> THEN 0 ELSE Head(s) + Sum(Tail(s))
    IN  Sum(rcs)

cursor_rowcount(rcs) == rcs[Len(rcs)]

\* Leaving insert_<k> with the pair (inserted, skipped).
Return(wu, k, pair) ==
    LET nxt == LoadOrder[Pos(k) + 1]
    IN  [wu EXCEPT !.pc = nxt,
                   !.idx = IF nxt = "hoso" THEN 0 ELSE 1,
                   !.rcs = <<>>,
                   !.res[k] = pair,
                   !.returned = Append(@, k)]

Active(u) == w[u].pc \notin {"new", "queued", "done", "joined"}

GroupOf(u) == IF u <= cut THEN 1 ELSE 2

\* A pool thread is free and u is the oldest queued task.
Connectable(u) ==
    /\ w[u].pc = "queued"
    /\ Cardinality({v \in Units : Active(v)}) < MaxWorkers
    /\ \A v \in Units : v < u => w[v].pc # "queued"

\* thread_db_inserter.connect() succeeds.
Connect(u) ==
    /\ Connectable(u)
    /\ w' = [w EXCEPT ![u].pc = "parse", ![u].conn = "open"]
    /\ UNCHANGED <<db_inserter, xml_dirs_found, commune, result, xml_dir_exists, limit, exit_status, xml, parsed, faults, files, cut, mainpc, group, store, pend, aborted, stats, sofar, wrote>>

\* connect() returns False: the worker returns before its try block.
ConnectFail(u) ==
    /\ Connectable(u)
    /\ w' = [w EXCEPT ![u].pc = "countfail"]
    /\ faults < MaxFaults /\ faults' = faults + 1
    /\ UNCHANGED <<db_inserter, xml_dirs_found, commune, result, xml_dir_exists, limit, exit_status, xml, parsed, files, cut, mainpc, group, store, pend, aborted, stats, sofar, wrote>>

\* parser.parse() returns True.
Parse(u) ==
    /\ w[u].pc = "parse"
    /\ DocOf(files[u]).wellformed
    /\ w' = [w EXCEPT ![u].pc = "extract"]
    /\ UNCHANGED <<db_inserter, xml_dirs_found, commune, result, xml_dir_exists, limit, exit_status, xml, parsed, faults, files, cut, mainpc, group, store, pend, aborted, stats, sofar, wrote>>

\* The worker going on to the extractors after parse() returned False.
ParseFail_GoesOn(u) ==
    /\ w[u].pc = "parse"
    /\ ~DocOf(files[u]).wellformed
    /\ w' = [w EXCEPT ![u].pc = "extract"]
    /\ UNCHANGED <<db_inserter, xml_dirs_found, commune, result, xml_dir_exists, limit, exit_status, xml, parsed, faults, files, cut, mainpc, group, store, pend, aborted, stats, sofar, wrote>>

\* parser.parse() returns False: disconnect, then count the failure.
ParseFail(u) ==
    /\ w[u].pc = "parse"
    /\ ~DocOf(files[u]).wellformed
    /\ w' = [w EXCEPT ![u].pc = "countfail", ![u].conn = "closed"]
    /\ UNCHANGED <<db_inserter, xml_dirs_found, commune, result, xml_dir_exists, limit, exit_status, xml, parsed, faults, files, cut, mainpc, group, store, pend, aborted, stats, sofar, wrote>>

\* The four extract_* calls.
Extract(u) ==
    /\ w[u].pc = "extract"
    /\ LET doc == DocOf(files[u])
       IN  w' = [w EXCEPT
                   ![u].pc = LoadOrder[1],
                   ![u].before = {v \in Units : /\ w[v].failures = {}
                                                /\ Len(w[v].returned) = Len(LoadOrder)},
                   ![u].idx = IF LoadOrder[1] = "hoso" THEN 0 ELSE 1,
                   ![u].data = [k \in Kinds |->
                       CASE k = "thuadat"       -> extract_thuadat_data(doc)
                         [] k = "canhan"        -> extract_canhan_data(doc)
                         [] k = "giaychungnhan" -> extract_giaychungnhan_data(doc)
                         [] k = "hoso"          -> extract_hoso_data(doc)]]
    /\ UNCHANGED <<db_inserter, xml_dirs_found, commune, result, xml_dir_exists, limit, exit_status, xml, parsed, faults, files, cut, mainpc, group, store, pend, aborted, stats, sofar, wrote>>

\* insert_<k>([]) returns (0, 0) without touching the connection.
EmptyBatch(u) ==
    /\ w[u].pc \in Kinds
    /\ w[u].data[w[u].pc] = <<>>
    /\ w' = [w EXCEPT ![u] = Return(@, @.pc, <<0, 0>>)]
    /\ UNCHANGED <<db_inserter, xml_dirs_found, commune, result, xml_dir_exists, limit, exit_status, xml, parsed, faults, files, cut, mainpc, group, store, pend, aborted, stats, sofar, wrote>>

\* unique_gcn_ids of insert_hoso.
unique_gcn_ids(data_list) ==
    {data_list[i].giayChungNhanID : i \in 1..Len(data_list)} \ {None, <<>>}

\* The components whose reference is invalid are left out of the batch.
NullInvalid_Drop(data_list, valid_gcn_ids) ==
    LET keep(d) == ~(Truthy(d.giayChungNhanID)
                       /\ d.giayChungNhanID \notin valid_gcn_ids)
    IN  SelectSeq(data_list, keep)

\* The loop setting giayChungNhanID to None where it is not in valid_gcn_ids.
NullInvalid(data_list, valid_gcn_ids) ==
    [i \in 1..Len(data_list) |->
        IF Truthy(data_list[i].giayChungNhanID)
              /\ data_list[i].giayChungNhanID \notin valid_gcn_ids
        THEN [data_list[i] EXCEPT !.giayChungNhanID = None]
        ELSE data_list[i]]

\* insert_hoso up to its execute_batch: the existence query answers.
Validate(u) ==
    /\ w[u].pc = "hoso" /\ w[u].idx = 0
    /\ w[u].data["hoso"] # <<>>
    /\ ~aborted[u]
    /\ LET ids   == unique_gcn_ids(w[u].data["hoso"])
           valid == ids \cap KeysOf("giaychungnhan", Visible(u, "giaychungnhan"))
       IN  w' = [w EXCEPT ![u].idx = 1,
                          ![u].data["hoso"] = NullInvalid(@, valid),
                          ![u].gcn_seen = KeysOf("giaychungnhan",
                                              store["giaychungnhan"]
                                                \cup pend[u]["giaychungnhan"])]
    /\ UNCHANGED <<db_inserter, xml_dirs_found, commune, result, xml_dir_exists, limit, exit_status, xml, parsed, faults, files, cut, mainpc, group, store, pend, aborted, stats, sofar, wrote>>

\* The existence query raises: every referenced id is taken as valid.  The
\* failed statement leaves the transaction in the failed state.
ValidateFail(u) ==
    /\ w[u].pc = "hoso" /\ w[u].idx = 0
    /\ w[u].data["hoso"] # <<>>
    /\ unique_gcn_ids(w[u].data["hoso"]) # {}
    /\ LET ids == unique_gcn_ids(w[u].data["hoso"])
       IN  w' = [w EXCEPT ![u].idx = 1,
                          ![u].data["hoso"] = NullInvalid(@, ids),
                          ![u].failures = @ \cup {"query"},
                          ![u].gcn_seen = KeysOf("giaychungnhan",
                                              store["giaychungnhan"]
                                                \cup pend[u]["giaychungnhan"])]
    /\ aborted' = [aborted EXCEPT ![u] = TRUE]
    /\ faults < MaxFaults /\ faults' = faults + 1
    /\ UNCHANGED <<db_inserter, xml_dirs_found, commune, result, xml_dir_exists, limit, exit_status, xml, parsed, files, cut, mainpc, group, store, pend, stats, sofar, wrote>>

CurRow(u) == w[u].data[w[u].pc][w[u].idx]

AtStatement(u) ==
    /\ w[u].pc \in Kinds
    /\ w[u].idx >= 1
    /\ w[u].idx <= Len(w[u].data[w[u].pc])

\* Whether a row with the key of u's current statement is committed.
OnCommittedKey(u) ==
    KeyOf(w[u].pc, CurRow(u)) \in KeysOf(w[u].pc, store[w[u].pc])

\* The except branch without its conn.rollback().
BatchError_NoRollback(u, why) ==
    /\ w' = [w EXCEPT ![u] =
                Return([@ EXCEPT !.failures = @ \cup {w[u].pc}],
                       w[u].pc, <<0, Len(w[u].data[w[u].pc])>>)]
    /\ aborted' = [aborted EXCEPT ![u] = FALSE]
    /\ UNCHANGED <<db_inserter, xml_dirs_found, commune, result, xml_dir_exists, limit, exit_status, xml, parsed, faults, files, cut, mainpc, group, store, pend, stats, sofar, wrote>>

\* The except branch of insert_<k>: conn.rollback() and (0, len(data_list)).
BatchError(u, why) ==
    /\ w' = [w EXCEPT ![u] =
                Return([@ EXCEPT !.failures = @ \cup {w[u].pc},
                                 !.dup = IF OnCommittedKey(u) THEN @ \cup {why} ELSE @],
                       w[u].pc, <<0, Len(w[u].data[w[u].pc])>>)]
    /\ pend' = [pend EXCEPT ![u] = NoRows]
    /\ aborted' = [aborted EXCEPT ![u] = FALSE]
    /\ UNCHANGED <<db_inserter, xml_dirs_found, commune, result, xml_dir_exists, limit, exit_status, xml, parsed, faults, files, cut, mainpc, group, store, stats, sofar, wrote>>

\* One statement of execute_batch; after the last one the try branch returns
\* (rowcount, len(data_list) - rowcount).
Statement(u) ==
    /\ AtStatement(u)
    /\ LET k   == w[u].pc
           row == CurRow(u)
           out == Outcome(u, k, row)
           rcs == Append(w[u].rcs, IF out = "insert" THEN 1 ELSE 0)
           n   == Len(w[u].data[k])
           hist == [w[u] EXCEPT
                       !.ins = IF out = "insert" THEN @ \cup {<<k, row>>} ELSE @,
                       !.dup = IF OnCommittedKey(u) THEN @ \cup {out} ELSE @]
       IN  /\ out \in {"skip", "insert"}
           /\ pend' = IF out = "insert"
                      THEN [pend EXCEPT ![u][k] = @ \cup {row}]
                      ELSE pend
           /\ w' = IF w[u].idx < n
                   THEN [w EXCEPT ![u] = [hist EXCEPT !.idx = @ + 1, !.rcs = rcs]]
                   ELSE [w EXCEPT ![u] =
                            Return(hist, k, <<cursor_rowcount(rcs),
                                              n - cursor_rowcount(rcs)>>)]
    /\ UNCHANGED <<db_inserter, xml_dirs_found, commune, result, xml_dir_exists, limit, exit_status, xml, parsed, faults, files, cut, mainpc, group, store, aborted, stats, sofar, wrote>>

\* A statement raises: a rejected value, a violated foreign key, or a
\* transaction already in the failed state.
StatementError(u) ==
    /\ AtStatement(u)
    /\ Outcome(u, w[u].pc, CurRow(u)) = "error"
    /\ BatchError(u, IF aborted[u] THEN "aborted"
                     ELSE IF CastError(w[u].pc, CurRow(u)) THEN "cast"
                     ELSE "foreign key")

\* u waits for v when its current statement is blocked by a row of v.
WaitsFor(u) ==
    IF AtStatement(u) /\ Outcome(u, w[u].pc, CurRow(u)) = "blocked"
    THEN Blockers(u, w[u].pc, CurRow(u))
    ELSE {}

RECURSIVE ReachFrom(_, _)
ReachFrom(S, n) ==
    IF n = 0 THEN S
    ELSE ReachFrom(S \cup UNION {WaitsFor(v) : v \in S}, n - 1)

\* The store's deadlock detector makes the statement of one waiter of a
\* cycle raise.
DeadlockError(u) ==
    /\ AtStatement(u)
    /\ u \in ReachFrom(WaitsFor(u), NumFiles)
    /\ BatchError(u, "deadlock")

\* thread_db_inserter.commit() succeeds.
Commit(u) ==
    /\ w[u].pc = "commit"
    /\ store' = [k \in Kinds |-> store[k] \cup pend[u][k]]
    /\ wrote' = [wrote EXCEPT ![u] =
                    @ \cup UNION {{<<k, r>> : r \in pend[u][k]} : k \in Kinds}]
    /\ pend' = [pend EXCEPT ![u] = NoRows]
    /\ w' = [w EXCEPT ![u].pc = "count", ![u].returned = Append(@, "commit")]
    /\ UNCHANGED <<db_inserter, xml_dirs_found, commune, result, xml_dir_exists, limit, exit_status, xml, parsed, faults, files, cut, mainpc, group, aborted, stats, sofar>>

\* commit() raises: the worker's except branch rolls back.
CommitFail(u) ==
    /\ w[u].pc = "commit"
    /\ pend' = [pend EXCEPT ![u] = NoRows]
    /\ aborted' = [aborted EXCEPT ![u] = FALSE]
    /\ w' = [w EXCEPT ![u].pc = "countfail", ![u].failures = @ \cup {"commit"}]
    /\ faults < MaxFaults /\ faults' = faults + 1
    /\ UNCHANGED <<db_inserter, xml_dirs_found, commune, result, xml_dir_exists, limit, exit_status, xml, parsed, files, cut, mainpc, group, store, stats, sofar, wrote>>

InsertedKey(k) ==
    CASE k = "canhan"        -> "canhan_inserted"
      [] k = "giaychungnhan" -> "giaychungnhan_inserted"
      [] k = "thuadat"       -> "thuadat_inserted"
      [] k = "hoso"          -> "hoso_inserted"

SkippedKey(k) ==
    CASE k = "canhan"        -> "canhan_skipped"
      [] k = "giaychungnhan" -> "giaychungnhan_skipped"
      [] k = "thuadat"       -> "thuadat_skipped"
      [] k = "hoso"          -> "hoso_skipped"

\* file_stats of a unit of work.
file_stats(wu) ==
    [key \in StatKeys \ {"files_processed", "files_failed"} |->
        LET k == CHOOSE kk \in Kinds : key \in {InsertedKey(kk), SkippedKey(kk)}
        IN  IF key = InsertedKey(k) THEN wu.res[k][1] ELSE wu.res[k][2]]

\* ThreadSafeStats.increment(key), under the lock.
increment(st, key) == [st EXCEPT ![key] = @ + 1]

\* add_stats without its lock: the counts are written over a stale read of
\* the counters.
add_stats_lost(st, d) ==
    [key \in DOMAIN st |-> IF key \in DOMAIN d THEN d[key] ELSE st[key]]

\* ThreadSafeStats.add_stats(stats_dict), under the lock.
add_stats(st, d) ==
    [key \in DOMAIN st |-> IF key \in DOMAIN d THEN st[key] + d[key] ELSE st[key]]

\* self.stats.increment('files_processed')
CountProcessed(u) ==
    /\ w[u].pc = "count"
    /\ stats' = increment(stats, "files_processed")
    /\ w' = [w EXCEPT ![u].pc = "addstats"]
    /\ UNCHANGED <<db_inserter, xml_dirs_found, commune, result, xml_dir_exists, limit, exit_status, xml, parsed, faults, files, cut, mainpc, group, store, pend, aborted, sofar, wrote>>

\* self.stats.add_stats(file_stats); return True; finally: disconnect().
AddStats(u) ==
    /\ w[u].pc = "addstats"
    /\ stats' = add_stats(stats, file_stats(w[u]))
    /\ w' = [w EXCEPT ![u].pc = "done", ![u].result = "ok", ![u].conn = "closed"]
    /\ UNCHANGED <<db_inserter, xml_dirs_found, commune, result, xml_dir_exists, limit, exit_status, xml, parsed, faults, files, cut, mainpc, group, store, pend, aborted, sofar, wrote>>

\* The failure counted by the worker and once more by the as_completed loop.
CountFailed_Twice(u) ==
    /\ w[u].pc = "countfail"
    /\ stats' = increment(increment(stats, "files_failed"), "files_failed")
    /\ w' = [w EXCEPT ![u].pc = "done", ![u].result = "failed",
                      ![u].conn = IF @ = "open" THEN "closed" ELSE @]
    /\ UNCHANGED <<db_inserter, xml_dirs_found, commune, result, xml_dir_exists, limit, exit_status, xml, parsed, faults, files, cut, mainpc, group, store, pend, aborted, sofar, wrote>>

\* The failure path without the finally clause.
CountFailed_NoDisconnect(u) ==
    /\ w[u].pc = "countfail"
    /\ stats' = increment(stats, "files_failed")
    /\ w' = [w EXCEPT ![u].pc = "done", ![u].result = "failed"]
    /\ UNCHANGED <<db_inserter, xml_dirs_found, commune, result, xml_dir_exists, limit, exit_status, xml, parsed, faults, files, cut, mainpc, group, store, pend, aborted, sofar, wrote>>

\* self.stats.increment('files_failed'); return False; an open connection
\* is closed by the finally clause.
CountFailed(u) ==
    /\ w[u].pc = "countfail"
    /\ stats' = increment(stats, "files_failed")
    /\ w' = [w EXCEPT ![u].pc = "done", ![u].result = "failed",
                      ![u].conn = IF @ = "open" THEN "closed" ELSE @]
    /\ UNCHANGED <<db_inserter, xml_dirs_found, commune, result, xml_dir_exists, limit, exit_status, xml, parsed, faults, files, cut, mainpc, group, store, pend, aborted, sofar, wrote>>

-----------------------------------------------------------------------------
(* XMLToDBExtractor.run                                                    *)

NumGroups == 2

InGroup(g) == {u \in Units : GroupOf(u) = g}

\* main: os.path.exists(args.xml_dir) is false.
PathMissing ==
    /\ mainpc = "main"
    /\ ~xml_dir_exists
    /\ mainpc' = "exited"
    /\ exit_status' = {1}
    /\ UNCHANGED <<db_inserter, xml_dirs_found, commune, result, xml_dir_exists, limit, xml, parsed, faults, files, cut, group, w, store, pend, aborted, stats, sofar, wrote>>

\* run: setup_database() returns True: connect() has opened the connection
\* and create_tables and commit have run.
SetupDatabase ==
    /\ mainpc = "main"
    /\ xml_dir_exists
    /\ mainpc' = "scan"
    /\ db_inserter' = "open"
    /\ UNCHANGED <<xml_dirs_found, commune, result, xml_dir_exists, limit, exit_status, xml, parsed, faults, files, cut, group, w, store, pend, aborted, stats, sofar, wrote>>

\* run: connect() of setup_database returns False and run returns at once.
SetupConnectFail ==
    /\ mainpc = "main"
    /\ xml_dir_exists
    /\ mainpc' = "norun"
    /\ UNCHANGED <<db_inserter, xml_dirs_found, commune, result, xml_dir_exists, limit, exit_status, xml, parsed, faults, files, cut, group, w, store, pend, aborted, stats, sofar, wrote>>

\* run: connect() succeeds, create_tables raises, setup_database rolls back
\* and returns False without disconnect(), and run returns at once.
SetupFail ==
    /\ mainpc = "main"
    /\ xml_dir_exists
    /\ mainpc' = "norun"
    /\ db_inserter' = "open"
    /\ UNCHANGED <<xml_dirs_found, commune, result, xml_dir_exists, limit, exit_status, xml, parsed, faults, files, cut, group, w, store, pend, aborted, stats, sofar, wrote>>

\* run: find_xml_directories returns at least one directory.
FindXmlDirs ==
    /\ mainpc = "scan"
    /\ xml_dirs_found
    /\ mainpc' = "submit"
    /\ UNCHANGED <<db_inserter, xml_dirs_found, commune, result, xml_dir_exists, limit, exit_status, xml, parsed, faults, files, cut, group, w, store, pend, aborted, stats, sofar, wrote>>

\* run: find_xml_directories returns no directory and run returns at once.
NoXmlDirs ==
    /\ mainpc = "scan"
    /\ ~xml_dirs_found
    /\ mainpc' = "nodirs"
    /\ UNCHANGED <<db_inserter, xml_dirs_found, commune, result, xml_dir_exists, limit, exit_status, xml, parsed, faults, files, cut, group, w, store, pend, aborted, stats, sofar, wrote>>

\* xml_files after the limit has been applied: the first
\* limit - files_processed_so_far files of the directory.
xml_files(g) ==
    IF limit > 0 /\ Cardinality(InGroup(g)) > limit - sofar
    THEN {u \in InGroup(g) :
             Cardinality({v \in InGroup(g) : v <= u}) <= limit - sofar}
    ELSE InGroup(g)

\* Every file of every directory handed to one pool at once.
Submit_AllGroups ==
    /\ mainpc = "submit"
    /\ w' = [u \in Units |-> IF w[u].pc = "new" THEN [w[u] EXCEPT !.pc = "queued"]
                             ELSE w[u]]
    /\ mainpc' = "join"
    /\ group' = group
    /\ UNCHANGED <<db_inserter, xml_dirs_found, commune, result, xml_dir_exists, limit, exit_status, xml, parsed, faults, files, cut, store, pend, aborted, stats, sofar, wrote>>

\* One turn of the loop over the directories up to executor.submit for every
\* file: an empty directory is skipped, and the loop is left when the limit
\* has been reached; after the loop the orchestrator's connection is closed.
Submit ==
    /\ mainpc = "submit"
    /\ IF InGroup(group) = {}
       THEN /\ group' = group + 1
            /\ mainpc' = IF group = NumGroups THEN "finished" ELSE "submit"
            /\ w' = w
       ELSE IF limit > 0 /\ limit - sofar <= 0
       THEN /\ group' = group
            /\ mainpc' = "finished"
            /\ w' = w
       ELSE /\ w' = [u \in Units |->
                       IF u \in xml_files(group) THEN [w[u] EXCEPT !.pc = "queued"]
                       ELSE w[u]]
            /\ mainpc' = "join"
            /\ group' = group
    /\ db_inserter' = IF mainpc' = "finished" THEN "closed" ELSE db_inserter
    /\ UNCHANGED <<xml_dirs_found, commune, result, xml_dir_exists, limit, exit_status, xml, parsed, faults, files, cut, store, pend, aborted, stats, sofar, wrote>>

\* The files of the directory that were handed to the pool.
Submitted(g) == {u \in InGroup(g) : w[u].pc # "new"}

\* The as_completed loop and the end of the with block: every future of the
\* directory has completed; each successful one adds one to
\* files_processed_so_far.
EndGroup ==
    /\ mainpc = "join"
    /\ \A u \in Submitted(group) : w[u].pc = "done"
    /\ w' = [u \in Units |->
                IF u \in Submitted(group) THEN [w[u] EXCEPT !.pc = "joined"] ELSE w[u]]
    /\ sofar' = sofar + Cardinality({u \in Submitted(group) : w[u].result = "ok"})
    /\ group' = group + 1
    /\ mainpc' = IF group = NumGroups THEN "finished" ELSE "submit"
    /\ db_inserter' = IF mainpc' = "finished" THEN "closed" ELSE db_inserter
    /\ UNCHANGED <<xml_dirs_found, commune, result, xml_dir_exists, limit, exit_status, xml, parsed, faults, files, cut, store, pend, aborted, stats, wrote>>

\* main without its test of files_failed.
Exit_AlwaysZero ==
    /\ mainpc \in {"finished", "norun", "nodirs"}
    /\ mainpc' = "exited"
    /\ exit_status' = {0}
    /\ UNCHANGED <<db_inserter, xml_dirs_found, commune, result, xml_dir_exists, limit, xml, parsed, faults, files, cut, group, w, store, pend, aborted, stats, sofar, wrote>>

\* main: sys.exit(1) if any file failed, sys.exit(0) otherwise.
Exit ==
    /\ mainpc \in {"finished", "norun", "nodirs"}
    /\ mainpc' = "exited"
    /\ exit_status' = IF stats["files_failed"] > 0 THEN {1} ELSE {0}
    /\ UNCHANGED <<db_inserter, xml_dirs_found, commune, result, xml_dir_exists, limit, xml, parsed, faults, files, cut, group, w, store, pend, aborted, stats, sofar, wrote>>

-----------------------------------------------------------------------------

\* The state at the start of main, whatever --limit is.
Started ==
    /\ faults = 0
    /\ files \in [Units -> DocNames]
    /\ cut \in 1..NumFiles
    /\ mainpc = "main"
    /\ group = 1
    /\ w = [u \in Units |-> NewUnit]
    /\ store = NoRows
    /\ pend = [u \in Units |-> NoRows]
    /\ aborted = [u \in Units |-> FALSE]
    /\ stats = [key \in StatKeys |-> 0]
    /\ sofar = 0
    /\ wrote = [u \in Units |-> {}]
    /\ xml = EmptyDoc
    /\ parsed = NotParsed
    /\ exit_status = {}
    /\ xml_dir_exists \in BOOLEAN
    /\ xml_dirs_found \in BOOLEAN
    \* without an 'xml' directory there are no files: files and cut are unused
    /\ xml_dirs_found \/ (xml_dir_exists /\ cut = NumFiles /\ files = [u \in Units |-> "A"])
    /\ db_inserter = "none"
    /\ commune = NoCommune
    /\ result = NoResult

\* A run without --limit.
Init == Started /\ limit = 0

\* A run with --limit L, 0 < L.
InitLimit == Started /\ limit \in 1..MaxLimit

Worker(u) ==
    \/ Connect(u) \/ ConnectFail(u) \/ Parse(u) \/ ParseFail(u) \/ Extract(u)
    \/ EmptyBatch(u) \/ Validate(u) \/ ValidateFail(u)
    \/ Statement(u) \/ StatementError(u) \/ DeadlockError(u)
    \/ Commit(u) \/ CommitFail(u)
    \/ CountProcessed(u) \/ AddStats(u) \/ CountFailed(u)

Next ==
    \/ PathMissing
    \/ SetupDatabase
    \/ SetupConnectFail
    \/ SetupFail
    \/ FindXmlDirs
    \/ NoXmlDirs
    \/ Submit
    \/ EndGroup
    \/ \E u \in Units : Worker(u)
    \/ Exit

Spec == Init /\ [][Next]_vars

SpecLimit == InitLimit /\ [][Next]_vars

-----------------------------------------------------------------------------
(* XMLParser on its own                                                    *)

RECURSIVE SeqsUpTo(_, _)
SeqsUpTo(S, n) ==
    IF n = 0 THEN {<<>>}
    ELSE LET shorter == SeqsUpTo(S, n - 1)
         IN  shorter \cup {Append(q, x) : q \in shorter, x \in S}

VoChongNodes ==
    {[voChongID |-> T("v1"), voID |-> T("p1"), chongID |-> T("p2")],
     [voChongID |-> T("v1"), voID |-> T("p3"), chongID |-> None],
     [voChongID |-> <<" ", "v2">>, voID |-> T("p1"), chongID |-> T("p2")]}

QuyenNodes ==
    {[thuaDatID |-> td, doiTuongID |-> dt] :
        td \in {T("t1"), T("t2")},
        dt \in {T("v1"), T("v2"), <<" ">>}}

ThuaDatNodes == {Parcel(T("t1"), T("1.5")), Parcel(None, T("1.5"))}

\* The forms of the text of an element: absent or without text, empty,
\* white space only, surrounded by white space, plain.
TextForms == {None, <<>>, <<" ">>, <<" ", "x", " ">>, T("x")}

\* The forms of an identifier: plain, surrounded by white space, absent,
\* empty, white space only.
IdForms == {T("i1"), <<" ", "i2", " ">>, None, <<>>, <<" ">>}

GiayTo(id, so) ==
    [giayToTuyThanID |-> id, soGiayTo |-> so, ngayCap |-> None, hieuLuc |-> None]

GiayToNodes == {GiayTo(T("d1"), None), GiayTo(T("d2"), T("9")), GiayTo(None, T("7"))}

\* Documents with every VoChongCollection, set of QuyenSuDungDat nodes and
\* ThuaDatCollection up to the bounds.
OwnershipInputs ==
    [wellformed : {TRUE}, canhan : {<<>>}, gcn : {<<>>}, hoso : {<<>>},
     vochong : SeqsUpTo(VoChongNodes, MaxVoChong),
     quyen   : SeqsUpTo(QuyenNodes, MaxQuyen),
     thuadat : SeqsUpTo(ThuaDatNodes, MaxThuaDat)]

\* Documents with one person and every GiayToTuyThanCollection, and with
\* every CaNhanCollection of persons without identity document.
CaNhanInputs ==
    {[EmptyDoc EXCEPT !.canhan = <<[Person(id, "a") EXCEPT !.giayTo = gt]>>] :
        id \in {T("i1"), None}, gt \in SeqsUpTo(GiayToNodes, MaxGiayTo)}
    \cup
    {[EmptyDoc EXCEPT !.canhan = ps] :
        ps \in SeqsUpTo({Person(id, "a") : id \in IdForms}, MaxNodes)}

\* Documents with every GiayChungNhanCollection, and with one certificate
\* whose soVaoSo has every form of text.
GcnInputs ==
    {[EmptyDoc EXCEPT !.gcn = gs] :
        gs \in SeqsUpTo({Cert(id, "a") : id \in IdForms}, MaxNodes)}
    \cup
    {[EmptyDoc EXCEPT !.gcn = <<[Cert(T("i1"), "a") EXCEPT !.soVaoSo = t]>>] :
        t \in TextForms}

\* Documents with one case, alone, before or after another case, with every
\* collection of components.
HoSoInputs ==
    LET other == Case("c9", None, <<Comp(T("i9"), "b")>>)
        cases == {Case("c1", ref, tps) :
                     ref \in {T("g1"), None},
                     tps \in SeqsUpTo({Comp(id, "a") : id \in IdForms}, MaxNodes)}
    IN  {[EmptyDoc EXCEPT !.hoso = hs] :
            hs \in UNION {{<<c>>, <<c, other>>, <<other, c>>} : c \in cases}}

\* The forms of the text of a validity flag.
BoolForms ==
    {None, <<>>, <<" ">>, T("true"), T("TRUE"), T("True"), <<" ", "Yes", " ">>,
     T("yes"), T("1"), T("false"), T("0"), T("no")}

\* Documents with one parcel and one person with one identity document, the
\* validity flag of each in every form.
BoolInputs ==
    {[EmptyDoc EXCEPT
        !.thuadat = <<[Parcel(T("t1"), T("1.5")) EXCEPT !.hieuLuc = b1]>>,
        !.canhan  = <<[Person(T("p1"), "a") EXCEPT
                         !.giayTo = <<[GiayTo(T("d1"), None) EXCEPT
                                         !.hieuLuc = b2]>>]>>] :
        b1 \in BoolForms, b2 \in BoolForms}

\* The forms of the text of a date: the three formats, a month without its
\* zero, surrounding white space, a time after the day-first form, a month
\* that is none, text that is no date, white space, no text.
DateForms ==
    {None, <<>>, <<" ">>, T("not-a-date"),
     <<"2020", "-", "03", "-", "15">>,
     <<"2020", "-", "3", "-", "15">>,
     <<" ", "2020", "-", "03", "-", "15", " ">>,
     <<"15", "/", "03", "/", "2020">>,
     <<"15", "/", "3", "/", "2020">>,
     <<"2020", "-", "03", "-", "15", " ", "10", ":", "30", ":", "00">>,
     <<"15", "/", "03", "/", "2020", " ", "10", ":", "30", ":", "00">>,
     <<"2020", "-", "99", "-", "15">>,
     <<"2020", "/", "03", "/", "15">>}

\* Documents with one person with one identity document and one
\* certificate, the issue date of each in every form.
DateInputs ==
    {[EmptyDoc EXCEPT
        !.canhan = <<[Person(T("p1"), "a") EXCEPT
                        !.giayTo = <<[GiayTo(T("d1"), None) EXCEPT
                                        !.ngayCap = t1]>>]>>,
        !.gcn    = <<[Cert(T("g1"), "a") EXCEPT !.ngayCap = t2]>>] :
        t1 \in DateForms, t2 \in DateForms}

\* The documents the parser is given.
ExtractInputs ==
    OwnershipInputs \cup CaNhanInputs \cup GcnInputs \cup HoSoInputs
        \cup BoolInputs \cup DateInputs

InitExtract ==
    /\ faults = 0
    /\ files = [u \in Units |-> "A"]
    /\ cut = 1
    /\ mainpc = "submit"
    /\ group = 1
    /\ w = [u \in Units |-> NewUnit]
    /\ store = NoRows
    /\ pend = [u \in Units |-> NoRows]
    /\ aborted = [u \in Units |-> FALSE]
    /\ stats = [key \in StatKeys |-> 0]
    /\ sofar = 0
    /\ wrote = [u \in Units |-> {}]
    /\ xml \in ExtractInputs
    /\ parsed = NotParsed
    /\ limit = 0
    /\ exit_status = {}
    /\ xml_dir_exists = TRUE
    /\ xml_dirs_found = TRUE
    /\ db_inserter = "none"
    /\ commune = NoCommune
    /\ result = NoResult

\* parser.extract_thuadat_data()
ExtractThuaDat ==
    /\ ~parsed.returned
    /\ parsed' = [parsed EXCEPT !.returned = TRUE, !.calls = 1,
                                !.thuadat_list = extract_thuadat_data(xml)]
    /\ UNCHANGED <<faults, files, cut, mainpc, group, w, store, pend, aborted,
                   stats, sofar, wrote, xml, limit, exit_status, xml_dir_exists, xml_dirs_found, commune, result, db_inserter>>

\* parser.extract_canhan_data()
ExtractCaNhan ==
    /\ parsed.calls = 1
    /\ parsed' = [parsed EXCEPT !.calls = 2,
                                !.canhan_list = extract_canhan_data(xml)]
    /\ UNCHANGED <<faults, files, cut, mainpc, group, w, store, pend, aborted,
                   stats, sofar, wrote, xml, limit, exit_status, xml_dir_exists, xml_dirs_found, commune, result, db_inserter>>

\* parser.extract_giaychungnhan_data()
ExtractGiayChungNhan ==
    /\ parsed.calls = 2
    /\ parsed' = [parsed EXCEPT !.calls = 3,
                                !.gcn_list = extract_giaychungnhan_data(xml)]
    /\ UNCHANGED <<faults, files, cut, mainpc, group, w, store, pend, aborted,
                   stats, sofar, wrote, xml, limit, exit_status, xml_dir_exists, xml_dirs_found, commune, result, db_inserter>>

\* parser.extract_hoso_data()
ExtractHoSo ==
    /\ parsed.calls = 3
    /\ parsed' = [parsed EXCEPT !.calls = 4,
                                !.hoso_list = extract_hoso_data(xml)]
    /\ UNCHANGED <<faults, files, cut, mainpc, group, w, store, pend, aborted,
                   stats, sofar, wrote, xml, limit, exit_status, xml_dir_exists, xml_dirs_found, commune, result, db_inserter>>

NextExtract ==
    \/ ExtractThuaDat
    \/ ExtractCaNhan
    \/ ExtractGiayChungNhan
    \/ ExtractHoSo

SpecExtract == InitExtract /\ [][NextExtract]_vars

-----------------------------------------------------------------------------
(* process_all_communes.py: the PDF names of a commune's XML files against *)
(* the PDF files of its 'ho-so-quet' directory                             *)

\* The most files an 'xml' directory holds.
MaxXmlFiles == 2

\* File names and url texts, as strings: the extension is one token.
A_pdf == <<"a", ".pdf">>
B_pdf == <<"b", ".pdf">>
B_PDF == <<"b", ".PDF">>
C_txt == <<"c", ".txt">>

\* url.split('/')[-1] if '/' in url else url
LastSegment(url) ==
    IF "/" \in Range(url)
    THEN LET i == CHOOSE n \in 1..Len(url) :
                     url[n] = "/" /\ \A m \in (n + 1)..Len(url) : url[m] # "/"
         IN  SubSeq(url, i + 1, Len(url))
    ELSE url

\* name.lower().endswith('.pdf')
EndsWithPdf(name) == Len(name) > 0 /\ Lower(name)[Len(name)] = ".pdf"

\* A file of the 'xml' directory: whether its name ends with '.xml', whether
\* ET.parse accepts it, and for each ThanhPhanHoSoDangKyDatDai of it the
\* text of its url element, None when it has none.
XmlFile(is_xml, wellformed, urls) ==
    [is_xml |-> is_xml, wellformed |-> wellformed, urls |-> urls]

XmlFileForms ==
    { XmlFile(TRUE, FALSE, <<>>),
      XmlFile(FALSE, TRUE, <<A_pdf>>),
      XmlFile(TRUE, TRUE, <<>>),
      XmlFile(TRUE, TRUE, <<<<"d", "/">> \o A_pdf>>),
      XmlFile(TRUE, TRUE, <<A_pdf, <<"d", "/", "e", "/">> \o B_PDF>>),
      XmlFile(TRUE, TRUE, <<None, <<>>, C_txt, <<"d", "/">>, B_pdf>>) }

\* The files under 'ho-so-quet': a directory and a name each.
HoSoFiles ==
    { [dir |-> "", name |-> A_pdf], [dir |-> "s", name |-> A_pdf],
      [dir |-> "", name |-> B_PDF], [dir |-> "", name |-> C_txt] }

\* The commune directories process_commune is called with.
Communes ==
    [xml_exists : BOOLEAN, ho_so_exists : BOOLEAN,
     xml : SeqsUpTo(XmlFileForms, MaxXmlFiles), ho_so : SUBSET HoSoFiles]

\* get_text of process_all_communes.py: the text, None when it is empty.
get_text_url(text) == IF text # None /\ Truthy(text) THEN text ELSE None

\* extract_pdf_info_from_xml: pdf_names and xml_count.
extract_pdf_info_from_xml(xml_dir) ==
    LET seen  == {i \in 1..Len(xml_dir) : xml_dir[i].is_xml}
        names(f) == {LastSegment(get_text_url(f.urls[j])) :
                        j \in {n \in 1..Len(f.urls) :
                                  /\ get_text_url(f.urls[n]) # None
                                  /\ EndsWithPdf(LastSegment(get_text_url(f.urls[n])))}}
    IN  [pdf_names |-> UNION {names(xml_dir[i]) :
                                 i \in {n \in seen : xml_dir[n].wellformed}},
         xml_count |-> Cardinality(seen)]

\* find_pdf_files_in_directory: pdf_files, the paths by file name, and
\* file_count.
find_pdf_files_in_directory(base_dir) ==
    LET pdfs == {f \in base_dir : EndsWithPdf(f.name)}
    IN  [pdf_files  |-> [n \in {f.name : f \in pdfs} |-> {f \in pdfs : f.name = n}],
         file_count |-> Cardinality(pdfs)]

\* result of process_commune as it is initialised.
EmptyResult ==
    [xml_count |-> 0, pdf_from_xml_count |-> 0, pdf_in_ho_so_count |-> 0,
     matched_count |-> 0, unmatched_from_xml |-> {}, unmatched_in_ho_so |-> {},
     pdf_names_from_xml |-> {}, pdf_files_in_ho_so |-> <<>>, matched_files |-> {}]

\* process_commune: matched_files and the lists of unmatched names are sets
\* here, the source builds each of them from a set, without repetition.
process_commune(c) ==
    IF ~c.xml_exists THEN EmptyResult
    ELSE LET x == extract_pdf_info_from_xml(c.xml)
             r == [EmptyResult EXCEPT
                      !.xml_count = x.xml_count,
                      !.pdf_from_xml_count = Cardinality(x.pdf_names),
                      !.pdf_names_from_xml = x.pdf_names]
         IN  IF ~c.ho_so_exists THEN r
             ELSE LET h == find_pdf_files_in_directory(c.ho_so)
                      matched == {n \in x.pdf_names : n \in DOMAIN h.pdf_files}
                  IN  [r EXCEPT
                          !.pdf_in_ho_so_count = h.file_count,
                          !.pdf_files_in_ho_so = h.pdf_files,
                          !.matched_files = matched,
                          !.matched_count = Cardinality(matched),
                          !.unmatched_from_xml = x.pdf_names \ DOMAIN h.pdf_files,
                          !.unmatched_in_ho_so = DOMAIN h.pdf_files \ x.pdf_names]

\* process_commune is about to be called with some commune directory; a
\* directory that does not exist holds nothing.
InitMatch ==
    /\ faults = 0
    /\ files = [u \in Units |-> "A"]
    /\ cut = 1
    /\ mainpc = "submit"
    /\ group = 1
    /\ w = [u \in Units |-> NewUnit]
    /\ store = NoRows
    /\ pend = [u \in Units |-> NoRows]
    /\ aborted = [u \in Units |-> FALSE]
    /\ stats = [key \in StatKeys |-> 0]
    /\ sofar = 0
    /\ wrote = [u \in Units |-> {}]
    /\ xml = EmptyDoc
    /\ parsed = NotParsed
    /\ limit = 0
    /\ exit_status = {}
    /\ xml_dir_exists = TRUE
    /\ xml_dirs_found = TRUE
    /\ db_inserter = "none"
    /\ commune \in Communes
    /\ commune.xml_exists \/ commune.xml = <<>>
    /\ commune.ho_so_exists \/ commune.ho_so = {}
    /\ result = NoResult

\* result = process_commune(commune_dir)
ProcessCommune ==
    /\ result = NoResult
    /\ result' = process_commune(commune)
    /\ UNCHANGED <<faults, files, cut, mainpc, group, w, store, pend, aborted,
                   stats, sofar, wrote, xml, parsed, limit, exit_status,
                   xml_dir_exists, xml_dirs_found, db_inserter, commune>>

NextMatch == ProcessCommune

SpecMatch == InitMatch /\ [][NextMatch]_vars

-----------------------------------------------------------------------------
(* Properties of the load                                                  *)

Done(u) == w[u].pc \in {"done", "joined"}

Committed(u) == Len(w[u].returned) = 5

RowsOf(u, k) == {e[2] : e \in {x \in w[u].ins : x[1] = k}}

ExpectedOrder == <<"canhan", "giaychungnhan", "thuadat", "hoso", "commit">>

IsPrefix(s, t) == Len(s) <= Len(t) /\ s = SubSeq(t, 1, Len(s))

RECURSIVE SumOver(_, _, _)
SumOver(S, k, j) ==
    IF S = {} THEN 0
    ELSE LET u == CHOOSE x \in S : TRUE
         IN  w[u].res[k][j] + SumOver(S \ {u}, k, j)

\* Unit u loads a document that another unit had loaded and committed,
\* without any failure, before u began.
SecondPass(u) == \E v \in w[u].before : files[v] = files[u]

\* C1: a second load of a document whose first load committed without an
\* insert failure leaves the four tables unchanged (it inserts nothing, not
\* even tentatively, and commits nothing) and every insert_* call of it
\* returns (0, batch size).
C1_Idempotent ==
    \A u \in Units : SecondPass(u) =>
        /\ wrote[u] = {}
        /\ w[u].ins = {}
        /\ pend[u] = NoRows
        /\ \A k \in Kinds :
              k \in Range(w[u].returned) => w[u].res[k] = <<0, Len(w[u].data[k])>>

C1_Witness ==
    \E u \in Units :
        /\ SecondPass(u) /\ w[u].result = "ok"
        /\ \A k \in Kinds : w[u].data[k] # <<>>

\* The store holds at most one row per key and every row a unit committed is
\* still there as it was committed.
RowsKept ==
    /\ \A k \in Kinds : \A r1, r2 \in store[k] :
          KeyOf(k, r1) = KeyOf(k, r2) => r1 = r2
    /\ \A u \in Units : \A e \in wrote[u] : e[2] \in store[e[1]]

\* C2 as stated: once a row with an identifier is committed, a later insert
\* of a record with that identifier changes no column of the row, raises no
\* error and is only counted as skipped.
C2_AsStated ==
    /\ RowsKept
    /\ \A u \in Units : w[u].dup \subseteq {"skip"}

\* C2 amended: once a row with an identifier is committed, a later insert of
\* a record with that identifier changes no column of the row and is never
\* counted as inserted; its statement raises only when the record holds a
\* value its column type rejects or when the transaction is already in the
\* failed state, and otherwise it is skipped.
C2_FirstWriterWins ==
    /\ RowsKept
    /\ \A u \in Units : w[u].dup \subseteq {"skip", "cast", "aborted"}

C2_Witness ==
    \E u, v \in Units : \E e \in wrote[v] :
        /\ u # v /\ e[1] = "canhan" /\ w[u].dup = {"skip"} /\ Done(u)
        /\ \E i \in 1..Len(w[u].data["canhan"]) :
              /\ w[u].data["canhan"][i].caNhanID = e[2].caNhanID
              /\ w[u].data["canhan"][i] # e[2]

\* C3: the inserts of one unit of work are one transaction: when the unit
\* has finished, either every row its statements inserted is durable or
\* none is.
C3_Atomic ==
    \A u \in Units : Done(u) => wrote[u] = {} \/ wrote[u] = w[u].ins

\* C4: when the existence query has answered, every component of the batch
\* whose certificate reference is non-null and names no certificate row
\* visible at that time is handed to the insert with a null reference, the
\* others with their reference unchanged, and no component is dropped: once
\* insert_hoso has returned every component id of the batch is a row of the
\* table or of the unit's transaction.
C4_Nulling ==
    \A u \in Units :
        LET orig == extract_hoso_data(DocOf(files[u]))
            cur  == w[u].data["hoso"]
        IN  ( /\ \/ (w[u].pc = "hoso" /\ w[u].idx >= 1)
                 \/ "hoso" \in Range(w[u].returned)
              /\ "query" \notin w[u].failures )
            =>
            ( /\ Len(cur) = Len(orig)
              /\ \A i \in 1..Len(orig) :
                    cur[i] = [orig[i] EXCEPT !.giayChungNhanID =
                                 IF @ # None /\ @ \notin w[u].gcn_seen
                                 THEN None ELSE @]
              /\ "hoso" \in Range(w[u].returned) =>
                    \A i \in 1..Len(orig) :
                        orig[i].thanhPhanHoSoID
                            \in KeysOf("hoso", Visible(u, "hoso")) )

\* C6: in every unit of work the calls return in the order persons,
\* certificates, parcels, components, commit: the parcel insert runs only
\* after the person insert has returned, the component insert only after the
\* certificate insert has returned, and the one commit after all four.
C6_LoadOrder ==
    \A u \in Units :
        /\ IsPrefix(w[u].returned, ExpectedOrder)
        /\ (w[u].pc = "thuadat" \/ RowsOf(u, "thuadat") # {})
              => "canhan" \in Range(w[u].returned)
        /\ (w[u].pc = "hoso" \/ RowsOf(u, "hoso") # {})
              => "giaychungnhan" \in Range(w[u].returned)
        /\ (w[u].pc \in {"commit", "count", "addstats"} \/ wrote[u] # {})
              => Kinds \subseteq Range(w[u].returned)

C6_Witness ==
    \E u \in Units :
        /\ w[u].returned = ExpectedOrder
        /\ \A k \in Kinds : RowsOf(u, k) # {}

\* One step in which an insert_* call of u raises.
RaisesIn(u) == (w'[u].failures \cap Kinds) # (w[u].failures \cap Kinds)

\* C7: when the batch insert of a kind raises, the transaction of the unit
\* is rolled back (none of its rows stays pending, none reaches the store),
\* the call returns (0, batch size) and goes on to the next call; no call is
\* entered a second time.
C7_InsertFailure ==
    /\ [][\A u \in Units : RaisesIn(u) =>
            LET k == w[u].pc
            IN  /\ k \in Kinds
                /\ w'[u].failures = w[u].failures \cup {k}
                /\ pend'[u] = NoRows
                /\ store' = store
                /\ w'[u].res[k] = <<0, Len(w[u].data[k])>>
                /\ w'[u].returned = Append(w[u].returned, k)
                /\ w'[u].pc # k]_vars
    /\ [](\A u \in Units : w[u].pc \notin Range(w[u].returned))

C7_Witness ==
    \E u \in Units :
        /\ "thuadat" \in w[u].failures
        /\ w[u].pc = "hoso"
        /\ RowsOf(u, "giaychungnhan") # {}
        /\ pend[u] = NoRows

\* Unit u is at a step whose only guard is its position: parsing,
\* extracting, committing or counting.
Unhindered(u) ==
    w[u].pc \in {"parse", "extract", "commit", "count", "addstats", "countfail"}

\* C8: a unit of work that fails adds exactly one to files_failed and
\* nothing to any other counter, and the other units still run to the end:
\* the run never gets stuck, and when it has finished every unit has
\* completed, files_processed counts the successful units and the per-kind
\* counters are the sums of the pairs the successful units returned.
C8_FailureIsolation ==
    /\ stats["files_failed"] =
          Cardinality({u \in Units : Done(u) /\ w[u].result = "failed"})
    /\ \A u \in Units :
          Done(u) =>
             (w[u].result = "failed" <=>
                 \/ w[u].conn = "none"
                 \/ ~DocOf(files[u]).wellformed
                 \/ "commit" \in w[u].failures)
    /\ mainpc # "exited" => (\E u \in Units : Unhindered(u)) \/ ENABLED Next
    /\ mainpc = "finished" =>
          LET ok == {u \in Units : w[u].result = "ok"}
          IN  /\ \A u \in Units : w[u].pc = "joined"
              /\ stats["files_processed"] = Cardinality(ok)
              /\ \A k \in Kinds :
                    /\ stats[InsertedKey(k)] = SumOver(ok, k, 1)
                    /\ stats[SkippedKey(k)] = SumOver(ok, k, 2)

C8_Witness ==
    /\ mainpc = "finished"
    /\ \E u, v \in Units :
          /\ ~DocOf(files[u]).wellformed /\ w[u].result = "failed"
          /\ w[v].result = "ok" /\ w[v].res["canhan"][1] > 0

\* The pairs insert_* returned to unit u, in the order parcels, persons,
\* certificates, components.
Pairs(u) ==
    <<w[u].res["thuadat"], w[u].res["canhan"],
      w[u].res["giaychungnhan"], w[u].res["hoso"]>>

\* Every row of every batch of u was inserted by u: no key of the document
\* was in the store.
AllNew(u) ==
    \A k \in Kinds : Cardinality(RowsOf(u, k)) = Len(w[u].data[k])

\* C9: the document with 1 parcel, 2 persons, 1 certificate and 1 case of 3
\* components extracts to lists of length 1/2/1/3; loaded without failure
\* when none of its keys is in the store it returns (1,0), (2,0), (1,0),
\* (3,0), and loaded again (0,1), (0,2), (0,1), (0,3); and for every batch
\* that returns without raising, the inserted count is the number of rows
\* the batch added and the skipped count the rest of the batch.
C9_EndToEndCounts ==
    /\ Len(extract_thuadat_data(DocA)) = 1
    /\ Len(extract_canhan_data(DocA)) = 2
    /\ Len(extract_giaychungnhan_data(DocA)) = 1
    /\ Len(extract_hoso_data(DocA)) = 3
    /\ \A u \in Units :
          (files[u] = "A" /\ Done(u) /\ w[u].result = "ok" /\ w[u].failures = {})
          =>
          /\ AllNew(u) => Pairs(u) = <<<<1, 0>>, <<2, 0>>, <<1, 0>>, <<3, 0>>>>
          /\ SecondPass(u) => Pairs(u) = <<<<0, 1>>, <<0, 2>>, <<0, 1>>, <<0, 3>>>>
    /\ \A u \in Units : \A k \in Kinds :
          (k \in Range(w[u].returned) /\ k \notin w[u].failures)
          =>
          w[u].res[k] = <<Cardinality(RowsOf(u, k)),
                          Len(w[u].data[k]) - Cardinality(RowsOf(u, k))>>

\* The certificate ids of the document of unit u.
GcnIds(u) ==
    {r.giayChungNhanID : r \in Range(extract_giaychungnhan_data(DocOf(files[u])))}

\* C10: when two units of one pool both end successfully and their
\* documents hold the same certificate id (and no other document does), the
\* store holds exactly one row with that id, it is the row one of the two
\* units inserted and committed, and the other unit's certificate insert
\* did not raise, did not insert the id and counted a skipped record.
C10_ConcurrentCertificate ==
    \A u, v \in Units :
        ( /\ u # v /\ GroupOf(u) = GroupOf(v)
          /\ Done(u) /\ Done(v)
          /\ w[u].result = "ok" /\ w[v].result = "ok" )
        =>
        \A x \in GcnIds(u) \cap GcnIds(v) :
            (\A t \in Units \ {u, v} : x \notin GcnIds(t))
            =>
            LET rows == {r \in store["giaychungnhan"] : r.giayChungNhanID = x}
            IN  /\ Cardinality(rows) = 1
                /\ \E a \in {u, v} :
                      LET b == CHOOSE c \in {u, v} : c # a
                      IN  /\ \A r \in rows :
                                /\ r \in Range(w[a].data["giaychungnhan"])
                                /\ <<"giaychungnhan", r>> \in wrote[a]
                          /\ "giaychungnhan" \notin w[b].failures
                          /\ x \notin KeysOf("giaychungnhan",
                                             RowsOf(b, "giaychungnhan"))
                          /\ w[b].res["giaychungnhan"][2] >= 1

\* The text of a field as the parser reads it.
Text(raw) == get_text(raw, None)

\* The usage-rights of xml, in document order, whose parcel reference is id
\* and whose subject is the id of an owner-pair node of xml.
Qualifying(id) ==
    {j \in 1..Len(xml.quyen) :
        /\ Text(xml.quyen[j].thuaDatID) = id
        /\ \E o \in 1..Len(xml.vochong) :
              /\ Text(xml.vochong[o].voChongID) = Text(xml.quyen[j].doiTuongID)
              /\ Truthy(Text(xml.vochong[o].voChongID))}

\* The parcel nodes of xml that have an identifier, in document order.
Identified ==
    LET has(n) == Truthy(Text(n.thuaDatID))
    IN  SelectSeq(xml.thuadat, has)

\* C5: every parcel node with an identifier yields one record, in document
\* order; its three owner fields are those of the owner-pair (the last node
\* carrying that id) named by the subject of the first usage-right, in
\* document order, that references the parcel and whose subject is an
\* owner-pair id; usage-rights of the parcel with another subject are passed
\* over, and the three fields are null when no usage-right qualifies.
C5_OwnershipResolution ==
    parsed.returned =>
        /\ Len(parsed.thuadat_list) = Len(Identified)
        /\ \A i \in 1..Len(Identified) :
              LET id == Text(Identified[i].thuaDatID)
                  Q  == Qualifying(id)
                  r  == parsed.thuadat_list[i]
              IN  /\ r.thuaDatID = id
                  /\ Q = {} =>
                        r.voChongID = None /\ r.voID = None /\ r.chongID = None
                  /\ \A j \in Q :
                        (\A j2 \in Q : j <= j2) =>
                        \E o \in 1..Len(xml.vochong) :
                            /\ Text(xml.vochong[o].voChongID)
                                  = Text(xml.quyen[j].doiTuongID)
                            /\ \A o2 \in (o + 1)..Len(xml.vochong) :
                                  Text(xml.vochong[o2].voChongID)
                                      # Text(xml.vochong[o].voChongID)
                            /\ r.voChongID = Text(xml.vochong[o].voChongID)
                            /\ r.voID = Text(xml.vochong[o].voID)
                            /\ r.chongID = Text(xml.vochong[o].chongID)

\* A parcel whose first usage-right names no owner-pair and whose second
\* one does, beside a parcel node without identifier.
C5_Witness ==
    /\ parsed.returned
    /\ Len(parsed.thuadat_list) = 1
    /\ Len(xml.thuadat) = 2
    /\ Len(xml.quyen) >= 2
    /\ Text(xml.quyen[1].thuaDatID) = parsed.thuadat_list[1].thuaDatID
    /\ 1 \notin Qualifying(parsed.thuadat_list[1].thuaDatID)
    /\ 2 \in Qualifying(parsed.thuadat_list[1].thuaDatID)
    /\ parsed.thuadat_list[1].voChongID = Text(xml.quyen[2].doiTuongID)
    /\ parsed.thuadat_list[1].voID # None

\* The units that have counted themselves processed, and those whose counts
\* have been added.
CountedProcessed == {u \in Units : w[u].pc = "addstats" \/ w[u].result = "ok"}
AddedStats == {u \in Units : w[u].result = "ok"}
CountedFailed == {u \in Units : w[u].result = "failed"}

\* C11: under every interleaving each shared counter is the sum of the
\* contributions made so far, none lost and none applied twice:
\* files_processed and files_failed count one per unit that has counted
\* itself, the per-kind counters are the sums of the pairs of the units
\* whose counts were added; and whenever the groups so far have been joined
\* no unit is in the middle of its updates, so every counter is its value
\* before those groups plus the contributions of their units.
C11_CounterAggregation ==
    /\ stats["files_processed"] = Cardinality(CountedProcessed)
    /\ stats["files_failed"] = Cardinality(CountedFailed)
    /\ \A k \in Kinds :
          /\ stats[InsertedKey(k)] = SumOver(AddedStats, k, 1)
          /\ stats[SkippedKey(k)] = SumOver(AddedStats, k, 2)
    /\ mainpc \in {"submit", "finished", "exited"} =>
          \A u \in Units :
              /\ w[u].pc \in {"new", "joined"}
              /\ w[u].pc = "joined" => u \in AddedStats \cup CountedFailed

\* Two units of one pool about to add their counts at the same time.
C11_Witness ==
    \E u, v \in Units :
        /\ u # v
        /\ w[u].pc = "addstats" /\ w[v].pc = "addstats"
        /\ w[u].res["canhan"][1] > 0 /\ w[v].res["hoso"][1] > 0
        /\ stats["files_processed"] = 2

\* What belongs to the connection of unit u.
ConnOf(u) == <<w[u].conn, pend[u], aborted[u]>>

\* C12: the connection of a unit is opened once, by the unit; only steps of
\* the unit itself touch it or its transaction (no other unit, and no step
\* of run), an open transaction lives on an open connection, and when the
\* unit has ended, on whatever path, its connection is not open.
C12_ConnectionOwnership ==
    /\ [][\A u \in Units :
            /\ ConnOf(u)' # ConnOf(u) =>
                  /\ w'[u].pc # w[u].pc \/ w'[u].idx # w[u].idx
                  /\ mainpc' = mainpc /\ group' = group
                  /\ \A v \in Units \ {u} : ConnOf(v)' = ConnOf(v) /\ w'[v] = w[v]
            /\ (w'[u].conn = "open" /\ w[u].conn # "open") =>
                  w[u].conn = "none" /\ w[u].pc = "queued"]_vars
    /\ [](\A u \in Units :
            /\ Done(u) => w[u].conn \in {"closed", "none"}
            /\ Done(u) /\ w[u].conn = "none" => w[u].returned = <<>>
            /\ (pend[u] # NoRows \/ aborted[u]) => w[u].conn = "open")

\* A unit ended by a commit error with its connection closed while another
\* unit works on its own open connection.
C12_Witness ==
    \E u, v \in Units :
        /\ Done(u) /\ "commit" \in w[u].failures /\ w[u].conn = "closed"
        /\ w[v].conn = "open" /\ pend[v] # NoRows

\* C13: the directories are processed in order, one at a time: a unit is
\* under way only while its directory is the current one, a joined unit
\* belongs to an earlier or the current directory, and when a unit of a later
\* directory has been submitted every unit of the earlier directories has
\* been joined.
C13_GroupAtATime ==
    /\ \A u \in Units :
          /\ w[u].pc \notin {"new", "joined"} => GroupOf(u) = group
          /\ w[u].pc = "joined" => GroupOf(u) < group
    /\ \A u, v \in Units :
          (GroupOf(u) < GroupOf(v) /\ w[v].pc # "new") =>
              \/ w[u].pc = "joined"
              \/ limit > 0 /\ w[u].pc = "new"

C13_Witness ==
    \E u, v \in Units :
        /\ GroupOf(u) < GroupOf(v)
        /\ w[u].pc = "joined" /\ w[u].result = "ok"
        /\ w[v].pc \in Kinds

\* C14: with a cap L > 0 the number of files handed to the workers, whatever
\* became of them, never exceeds L.
C14_GlobalCap ==
    limit > 0 => Cardinality({u \in Units : w[u].pc # "new"}) <= limit

\* C15: the process exits with status 1 when the input path does not exist
\* or a unit of work failed, and with status 0 otherwise; it exits once.
C15_ExitStatus ==
    /\ exit_status \in {{}, {0}, {1}}
    /\ exit_status # {} <=> mainpc = "exited"
    /\ exit_status = {1} <=>
          (mainpc = "exited" /\ (~xml_dir_exists \/ stats["files_failed"] > 0))

C15_Witness ==
    /\ exit_status = {1}
    /\ xml_dir_exists
    /\ stats["files_processed"] > 0

\* C16: when parse() fails for the document of a unit, none of the
\* extractors runs and no insert is called, so no row of the document is
\* inserted or committed; the unit ends with the single result False; and
\* the other files are still worked on: at the end of the run every unit has
\* been joined.
C16_NoPartialExtraction ==
    /\ \A u \in Units : ~DocOf(files[u]).wellformed =>
          /\ w[u].data = NoData
          /\ w[u].returned = <<>>
          /\ w[u].res = ZeroRes
          /\ w[u].ins = {} /\ pend[u] = NoRows /\ wrote[u] = {}
          /\ w[u].result # "ok"
          /\ Done(u) => w[u].result = "failed"
    /\ mainpc = "finished" => \A v \in Units : w[v].pc = "joined"

C16_Witness ==
    \E u, v \in Units :
        /\ ~DocOf(files[u]).wellformed /\ w[u].pc = "joined"
        /\ u < v /\ GroupOf(u) = GroupOf(v)
        /\ wrote[v] # {} /\ w[v].pc = "joined"

\* C17: when the existence query of insert_hoso has failed, no reference of
\* the batch is set to null and the batch is inserted: if every certificate
\* the batch names was a row the unit could see when it asked, so that no
\* reference stands in the way of the insert, the component insert does not
\* fail.
C17_ExistenceFallback ==
    \A u \in Units :
        ("query" \in w[u].failures /\ "hoso" \in Range(w[u].returned)) =>
            /\ w[u].data["hoso"] = extract_hoso_data(DocOf(files[u]))
            /\ unique_gcn_ids(w[u].data["hoso"]) \subseteq w[u].gcn_seen
               => "hoso" \notin w[u].failures

\* An identifier element that is present and whose text is more than white
\* space.
HasId(raw) == raw # None /\ \E i \in 1..Len(raw) : raw[i] # " "

\* The number of elements of s that satisfy P.
Count(s, P(_)) == Cardinality({i \in 1..Len(s) : P(s[i])})

\* xml as it is without the nodes that have no identifier.
WithoutUnidentified ==
    LET td(n) == HasId(n.thuaDatID)
        cn(n) == HasId(n.caNhanID)
        gc(n) == HasId(n.giayChungNhanID)
        tp(n) == HasId(n.thanhPhanHoSoID)
        hs(h) == [h EXCEPT !.thanhphan = SelectSeq(h.thanhphan, tp)]
    IN  [xml EXCEPT !.thuadat = SelectSeq(xml.thuadat, td),
                    !.canhan  = SelectSeq(xml.canhan, cn),
                    !.gcn     = SelectSeq(xml.gcn, gc),
                    !.hoso    = MapSeq(xml.hoso, hs)]

\* The components of all the cases of xml, in document order.
AllThanhPhan ==
    LET tps(h) == h.thanhphan
    IN  Concat(MapSeq(xml.hoso, tps))

\* C18: for each of the four kinds, the extracted list has one record per
\* node that has an identifier, no record without identifier, and is the
\* list extracted from the document without the nodes that lack one.
C18_MissingIdentifierDrop ==
    LET td(n) == HasId(n.thuaDatID)
        cn(n) == HasId(n.caNhanID)
        gc(n) == HasId(n.giayChungNhanID)
        tp(n) == HasId(n.thanhPhanHoSoID)
    IN  /\ parsed.calls >= 1 =>
            /\ parsed.thuadat_list = extract_thuadat_data(WithoutUnidentified)
            /\ Len(parsed.thuadat_list) = Count(xml.thuadat, td)
            /\ \A r \in Range(parsed.thuadat_list) : HasId(r.thuaDatID)
        /\ parsed.calls >= 2 =>
            /\ parsed.canhan_list = extract_canhan_data(WithoutUnidentified)
            /\ Len(parsed.canhan_list) = Count(xml.canhan, cn)
            /\ \A r \in Range(parsed.canhan_list) : HasId(r.caNhanID)
        /\ parsed.calls >= 3 =>
            /\ parsed.gcn_list = extract_giaychungnhan_data(WithoutUnidentified)
            /\ Len(parsed.gcn_list) = Count(xml.gcn, gc)
            /\ \A r \in Range(parsed.gcn_list) : HasId(r.giayChungNhanID)
        /\ parsed.calls >= 4 =>
            /\ parsed.hoso_list = extract_hoso_data(WithoutUnidentified)
            /\ Len(parsed.hoso_list) = Count(AllThanhPhan, tp)
            /\ \A r \in Range(parsed.hoso_list) : HasId(r.thanhPhanHoSoID)

\* A certificate node without identifier stands between two that have one,
\* and the two are extracted in that order.
C18_Witness ==
    /\ parsed.calls = 4
    /\ Len(xml.gcn) = 3
    /\ HasId(xml.gcn[1].giayChungNhanID)
    /\ ~HasId(xml.gcn[2].giayChungNhanID)
    /\ HasId(xml.gcn[3].giayChungNhanID)
    /\ Len(parsed.gcn_list) = 2
    /\ parsed.gcn_list[1].giayChungNhanID = T("i1")
    /\ parsed.gcn_list[2].giayChungNhanID = T("i2")

\* The person nodes of xml that have an identifier, in document order.
IdentifiedCaNhan ==
    LET has(n) == HasId(n.caNhanID)
    IN  SelectSeq(xml.canhan, has)

\* C19: the identity-document fields of an extracted person are those of the
\* first entry of the person's identity-document collection, whatever the
\* later entries hold, and are all null when the collection has no entry.
C19_FirstIdentityDocument ==
    parsed.calls >= 2 =>
        /\ Len(parsed.canhan_list) = Len(IdentifiedCaNhan)
        /\ \A i \in 1..Len(parsed.canhan_list) :
              LET r == parsed.canhan_list[i]
                  n == IdentifiedCaNhan[i]
              IN  IF n.giayTo = <<>>
                  THEN r.giayToTuyThanID = None /\ r.soGiayTo = None
                  ELSE /\ r.giayToTuyThanID = Text(n.giayTo[1].giayToTuyThanID)
                       /\ r.soGiayTo = Text(n.giayTo[1].soGiayTo)

\* A person with two entries whose first has no number and whose second has
\* one is extracted with the id of the first and no number.
C19_Witness ==
    /\ parsed.calls >= 2
    /\ Len(parsed.canhan_list) = 1
    /\ Len(xml.canhan[1].giayTo) = 2
    /\ xml.canhan[1].giayTo[1].soGiayTo = None
    /\ xml.canhan[1].giayTo[2].soGiayTo = T("9")
    /\ parsed.canhan_list[1].giayToTuyThanID = T("d1")
    /\ parsed.canhan_list[1].soGiayTo = None

\* A value that is null or a text with no white space at either end.
Normalized(v) == v = None \/ (v # <<>> /\ Head(v) # " " /\ v[Len(v)] # " ")

\* C20: every text field of every extracted record is null or a non-empty
\* text without leading or trailing white space.
C20_TextNormalization ==
    /\ \A r \in Range(parsed.thuadat_list) :
          /\ Normalized(r.thuaDatID) /\ Normalized(r.dienTich)
          /\ Normalized(r.voChongID) /\ Normalized(r.voID)
          /\ Normalized(r.chongID)
    /\ \A r \in Range(parsed.canhan_list) :
          /\ Normalized(r.caNhanID) /\ Normalized(r.hoTen)
          /\ Normalized(r.giayToTuyThanID) /\ Normalized(r.soGiayTo)
    /\ \A r \in Range(parsed.gcn_list) :
          Normalized(r.giayChungNhanID) /\ Normalized(r.soVaoSo)
    /\ \A r \in Range(parsed.hoso_list) :
          /\ Normalized(r.thanhPhanHoSoID) /\ Normalized(r.hoSoDangKySoID)
          /\ Normalized(r.giayChungNhanID) /\ Normalized(r.tepTin)

\* A validity flag as the claim reads its text: null when the element is
\* absent, true for true / 1 / yes in any case, false for any other text.
FlagAsStated(raw) ==
    IF raw = None \/ raw = <<>> THEN None
    ELSE IF Lower(Strip(raw)) \in {T("true"), T("1"), T("yes")} THEN PyTrue
    ELSE PyFalse

\* C21: the validity flag of every extracted parcel and of every extracted
\* identity document is true when the text of its element is true, 1 or
\* yes in any case, false for any other text, and null when the element is
\* absent.
C21_BooleanFields ==
    /\ parsed.calls >= 1 =>
          \A i \in 1..Len(parsed.thuadat_list) :
              parsed.thuadat_list[i].hieuLuc
                  = FlagAsStated(Identified[i].hieuLuc)
    /\ parsed.calls >= 2 =>
          \A i \in 1..Len(parsed.canhan_list) :
              IdentifiedCaNhan[i].giayTo # <<>> =>
                  parsed.canhan_list[i].hieuLuc
                      = FlagAsStated(IdentifiedCaNhan[i].giayTo[1].hieuLuc)

\* The normalized date of a text, as the claim lists the formats of a
\* date-only field: year-month-day, then day/month/year.
DateAsStated(raw) ==
    IF raw = None \/ raw = <<>> THEN None
    ELSE LET s == Strip(raw)
         IN  IF IsYMD(s) THEN <<s[1], "-", Pad(s[3]), "-", s[5]>>
             ELSE IF IsDMY(s) THEN <<s[5], "-", Pad(s[3]), "-", s[1]>>
             ELSE None

\* The normalized date of a text under the three formats of a date-only
\* field: year-month-day, year-month-day with a time, day/month/year.
DateAsAmended(raw) ==
    IF raw = None \/ raw = <<>> THEN None
    ELSE LET s == Strip(raw)
         IN  IF IsYMD(s) \/ IsYMDHMS(s) THEN <<s[1], "-", Pad(s[3]), "-", s[5]>>
             ELSE IF IsDMY(s) THEN <<s[5], "-", Pad(s[3]), "-", s[1]>>
             ELSE None

\* The normalized timestamp of a text: year-month-day with a time, then
\* year-month-day alone, which is midnight.
TimestampAsStated(raw) ==
    IF raw = None \/ raw = <<>> THEN None
    ELSE LET s == Strip(raw)
         IN  IF IsYMDHMS(s)
             THEN <<s[1], "-", Pad(s[3]), "-", s[5], " ", s[7], ":", s[9], ":", s[11]>>
             ELSE IF IsYMD(s)
             THEN <<s[1], "-", Pad(s[3]), "-", s[5], " ", "00", ":", "00", ":", "00">>
             ELSE None

\* The issue dates of the extracted identity documents and certificates are
\* those that Date and the timestamp reading give for the text.
DatesAre(Date(_)) ==
    /\ parsed.calls >= 2 =>
          \A i \in 1..Len(parsed.canhan_list) :
              IdentifiedCaNhan[i].giayTo # <<>> =>
                  parsed.canhan_list[i].ngayCap
                      = Date(IdentifiedCaNhan[i].giayTo[1].ngayCap)
    /\ parsed.calls >= 3 =>
          LET has(n) == HasId(n.giayChungNhanID)
              kept   == SelectSeq(xml.gcn, has)
          IN  \A i \in 1..Len(parsed.gcn_list) :
                  parsed.gcn_list[i].ngayCap = TimestampAsStated(kept[i].ngayCap)

\* C22 as stated: a date-only field is read by exactly the formats
\* year-month-day then day/month/year, a timestamp field by year-month-day
\* with a time then year-month-day; text matching none of the formats of
\* its field yields null.
C22_AsStated == DatesAre(DateAsStated)

\* C22: a date-only field is read by the formats year-month-day, then
\* year-month-day with a time (the time is dropped), then day/month/year; a
\* timestamp field by year-month-day with a time, then year-month-day; the
\* first format that matches gives the normalized value, so 15/03/2020 and
\* 2020-03-15 give the same date, and text matching none of the formats of
\* its field yields null without raising.
C22_DateFormatFallback == DatesAre(DateAsAmended)

\* The day-first and the year-first text have been extracted to the same
\* date, a date with a time to its day, and text that is no date to null.
C22_Witness ==
    /\ parsed.calls = 4
    /\ Len(parsed.canhan_list) = 1 /\ Len(parsed.gcn_list) = 1
    /\ xml.canhan[1].giayTo # <<>>
    /\ xml.canhan[1].giayTo[1].ngayCap = <<"15", "/", "3", "/", "2020">>
    /\ parsed.canhan_list[1].ngayCap = <<"2020", "-", "03", "-", "15">>
    /\ xml.gcn[1].ngayCap = <<"15", "/", "03", "/", "2020">>
    /\ parsed.gcn_list[1].ngayCap = None

\* run() has returned.
RunReturned == mainpc \in {"finished", "norun", "nodirs"}

\* C23: at the end of a run that began with empty tables, the inserted
\* counter of each kind is the number of rows of that kind in the store.
C23_CounterAccuracy ==
    mainpc = "finished" =>
        \A k \in Kinds : stats[InsertedKey(k)] = Cardinality(store[k])

\* C24: once a unit of work has ended OK, every identifier it extracted, of
\* every kind, is the key of a row of the table of that kind.
C24_SuccessfulUnitComplete ==
    \A u \in Units :
        (Done(u) /\ w[u].result = "ok") =>
            \A k \in Kinds : \A i \in 1..Len(w[u].data[k]) :
                KeyOf(k, w[u].data[k][i]) \in KeysOf(k, store[k])

\* C25: in every committed state of the store, each non-null certificate
\* reference of a component row is the key of a certificate row, and each
\* non-null wife or husband reference of a parcel row is the key of a
\* person row.
C25_ReferentialIntegrity ==
    /\ \A r \in store["hoso"] :
          r.giayChungNhanID # None =>
              r.giayChungNhanID \in KeysOf("giaychungnhan", store["giaychungnhan"])
    /\ \A r \in store["thuadat"] :
          /\ r.voID # None => r.voID \in KeysOf("canhan", store["canhan"])
          /\ r.chongID # None => r.chongID \in KeysOf("canhan", store["canhan"])

\* Committed: a component with its certificate reference kept, a component
\* whose reference was set to null, and a parcel with both owner references.
C25_Witness ==
    /\ \E r \in store["hoso"] : r.giayChungNhanID # None
    /\ \E r \in store["hoso"] : r.thanhPhanHoSoID = T("h1") /\ r.giayChungNhanID = None
    /\ \E r \in store["thuadat"] : r.voID # None /\ r.chongID # None

\* C26: when run() has finished, files_processed + files_failed is the
\* number of files handed to workers; files_processed counts the units that
\* ended OK and files_failed those that failed, each once.
C26_FileAccounting ==
    mainpc = "finished" =>
        LET handed == {u \in Units : w[u].pc # "new"}
        IN  /\ stats["files_processed"] + stats["files_failed"] = Cardinality(handed)
            /\ stats["files_processed"]
                  = Cardinality({u \in handed : w[u].result = "ok"})
            /\ stats["files_failed"]
                  = Cardinality({u \in handed : w[u].result = "failed"})
            /\ \A u \in handed : w[u].result \in {"ok", "failed"}

\* A finished run with one file processed and one failed.
C26_Witness ==
    /\ mainpc = "finished"
    /\ stats["files_processed"] = 1 /\ stats["files_failed"] = 1
    /\ \A u \in Units : w[u].pc = "joined"

\* The records of kind k that the document of unit u extracts to.
Extracted(u, k) ==
    LET doc == DocOf(files[u])
    IN  CASE k = "thuadat"       -> extract_thuadat_data(doc)
          [] k = "canhan"        -> extract_canhan_data(doc)
          [] k = "giaychungnhan" -> extract_giaychungnhan_data(doc)
          [] k = "hoso"          -> extract_hoso_data(doc)

\* The run has finished, every unit has ended OK and no insert has raised.
CleanRun ==
    /\ mainpc = "finished"
    /\ \A u \in Units : w[u].pc = "joined" /\ w[u].result = "ok" /\ w[u].failures = {}

\* The rows of kind k at the end of the run that executes the units one
\* after the other in the order the files are listed, when no insert of it
\* raises: every identifier has the attributes of the first file that holds
\* it, and a component keeps its certificate reference if that file or an
\* earlier one holds the certificate.
RowsInListedOrder(k) ==
    LET first(x) == CHOOSE u \in Units :
                       /\ x \in {KeyOf(k, r) : r \in Range(Extracted(u, k))}
                       /\ \A v \in 1..(u - 1) :
                             x \notin {KeyOf(k, r) : r \in Range(Extracted(v, k))}
        rowof(x) == LET u == first(x)
                        l == Extracted(u, k)
                        i == CHOOSE n \in 1..Len(l) :
                                /\ KeyOf(k, l[n]) = x
                                /\ \A m \in 1..(n - 1) : KeyOf(k, l[m]) # x
                        seen == UNION {{r.giayChungNhanID :
                                          r \in Range(Extracted(v, "giaychungnhan"))} :
                                       v \in 1..u}
                    IN  IF k = "hoso" THEN NullInvalid(<<l[i]>>, seen)[1] ELSE l[i]
    IN  {rowof(x) : x \in UNION {{KeyOf(k, r) : r \in Range(Extracted(u, k))} :
                                  u \in Units}}

\* No insert raises in the run that executes the units one after the other
\* in listed order: every area is a number and every owner of a parcel is
\* a person of that file or of an earlier one.
ListedOrderClean ==
    \A u \in Units :
        LET persons == UNION {{r.caNhanID : r \in Range(Extracted(v, "canhan"))} :
                              v \in 1..u}
        IN  \A r \in Range(Extracted(u, "thuadat")) :
                /\ ~CastError("thuadat", r)
                /\ r.voID \in persons \cup {None}
                /\ r.chongID \in persons \cup {None}

C28_NoConnectionLeak ==
    RunReturned =>
        /\ db_inserter # "open"
        /\ \A u \in Units : w[u].conn # "open"

\* C29: when schema setup fails at startup, so that run() returns before any
\* unit of work is scheduled, the process exits with a non-zero status.
C29_StartupFailureSignalled ==
    [][mainpc = "norun" /\ mainpc' = "exited" => exit_status' # {0}]_vars

\* C30: for every commune with an 'xml' directory that process_commune was
\* called with, each PDF name referenced by its XML files is reported in
\* exactly one of matched_files, when it is the name of a PDF file under
\* 'ho-so-quet', or unmatched_from_xml, so that matched_count plus the
\* length of unmatched_from_xml is pdf_from_xml_count, whether or not the
\* 'ho-so-quet' directory exists.
C30_MatchingPartition ==
    result # NoResult /\ commune.xml_exists =>
        LET names  == extract_pdf_info_from_xml(commune.xml).pdf_names
            onDisk == {f.name : f \in {g \in commune.ho_so : EndsWithPdf(g.name)}}
        IN  /\ result.pdf_from_xml_count = Cardinality(names)
            /\ result.matched_files = names \cap onDisk
            /\ result.unmatched_from_xml = names \ onDisk
            /\ result.matched_count = Cardinality(result.matched_files)
            /\ result.matched_count + Cardinality(result.unmatched_from_xml)
                  = result.pdf_from_xml_count

=============================================================================
